---------------------------- MODULE Spec2Model ----------------------------
(***************************************************************************)
(* Model of the Pokemon battle evaluator (app/utils/pokemon_utils.py) and  *)
(* of the battle animation compositor (app/utils/visualization_utils.py).  *)
(*                                                                         *)
(* Python floats are IEEE-754 binary64 values.  They are modelled exactly: *)
(* a float is a record [s, m, e] that stands for (-1)^s * m * 2^e, with m  *)
(* an arbitrary-precision natural number (a little-endian sequence of      *)
(* limbs) that is odd or zero, and every operation rounds its exact result *)
(* to 53 significant bits, ties to even, as the hardware does.  All values *)
(* of the program stay far inside the normal exponent range, so overflow,  *)
(* subnormals, infinities and NaN do not arise and are not modelled.       *)
(***************************************************************************)
EXTENDS Integers, Sequences, FiniteSets, TLC

(***************************************************************************)
(* Arbitrary-precision naturals: sequences of limbs, least significant     *)
(* limb first, with no zero limb at the top; <<>> is zero.                 *)
(***************************************************************************)
Base == 2^15

Min2(x, y) == IF x < y THEN x ELSE y

Max2(x, y) == IF x > y THEN x ELSE y

RECURSIVE BN(_)
BN(n) ==
    IF n = 0 THEN <<>> ELSE <<n % Base>> \o BN(n \div Base)

\* the largest element of a non-empty set of integers
Largest(indices) == CHOOSE i \in indices : \A j \in indices : j <= i

\* a without its leading zero limbs
BTrim(a) ==
    LET nonzero == {i \in 1 .. Len(a) : a[i] # 0}
    IN  IF nonzero = {} THEN <<>> ELSE SubSeq(a, 1, Largest(nonzero))

BRest(a) == IF a = <<>> THEN <<>> ELSE Tail(a)

BLow(a) == IF a = <<>> THEN 0 ELSE Head(a)

RECURSIVE BAddC(_, _, _)
BAddC(a, b, c) ==
    IF a = <<>> /\ b = <<>> THEN (IF c = 0 THEN <<>> ELSE <<c>>)
    ELSE LET x == BLow(a) + BLow(b) + c
         IN  <<x % Base>> \o BAddC(BRest(a), BRest(b), x \div Base)

BAdd(a, b) == BAddC(a, b, 0)

\* a - b - c for a >= b + c, before trimming
RECURSIVE BSubC(_, _, _)
BSubC(a, b, c) ==
    IF a = <<>> THEN <<>>
    ELSE LET x == BLow(a) - BLow(b) - c
         IN  IF x < 0 THEN <<x + Base>> \o BSubC(BRest(a), BRest(b), 1)
             ELSE <<x>> \o BSubC(BRest(a), BRest(b), 0)

BSub(a, b) == BTrim(BSubC(a, b, 0))

\* -1, 0, 1 as a < b, a = b, a > b
BCmpTop(a, b, i) ==
    LET differing == {j \in 1 .. i : a[j] # b[j]}
    IN  IF differing = {} THEN 0
        ELSE IF a[Largest(differing)] < b[Largest(differing)] THEN -1
        ELSE 1

BCmp(a, b) ==
    IF Len(a) < Len(b) THEN -1
    ELSE IF Len(a) > Len(b) THEN 1
    ELSE BCmpTop(a, b, Len(a))

\* a * d + c for a limb d
RECURSIVE BMulSmall(_, _, _)
BMulSmall(a, d, c) ==
    IF a = <<>> THEN (IF c = 0 THEN <<>> ELSE <<c>>)
    ELSE LET x == Head(a) * d + c
         IN  <<x % Base>> \o BMulSmall(Tail(a), d, x \div Base)

BShiftLimb(a) == IF a = <<>> THEN <<>> ELSE <<0>> \o a

BShiftLimbs(a, n) == IF a = <<>> THEN <<>> ELSE [i \in 1 .. n |-> 0] \o a

RECURSIVE BMul(_, _)
BMul(a, b) ==
    IF b = <<>> \/ a = <<>> THEN <<>>
    ELSE BAdd(BTrim(BMulSmall(a, Head(b), 0)), BShiftLimb(BMul(a, Tail(b))))

\* <<a \div d, a % d>> for a limb d > 0
RECURSIVE BDivSmallRaw(_, _)
BDivSmallRaw(a, d) ==
    IF a = <<>> THEN << <<>>, 0 >>
    ELSE LET hi == BDivSmallRaw(Tail(a), d)
             x  == hi[2] * Base + Head(a)
         IN  << <<x \div d>> \o hi[1], x % d >>

BDivSmall(a, d) ==
    LET r == BDivSmallRaw(a, d) IN << BTrim(r[1]), r[2] >>

\* a * 2^k
BShl(a, k) ==
    BShiftLimbs(
        BTrim([i \in 1 .. Len(a) + 1 |->
                 (IF i <= Len(a) THEN (a[i] * 2^(k % 15)) % Base ELSE 0)
                 + (IF i > 1 THEN a[i - 1] \div 2^(15 - (k % 15)) ELSE 0)]),
        k \div 15)

\* a \div 2^k
BShr(a, k) ==
    BTrim([i \in 1 .. Len(a) - Min2(Len(a), k \div 15) |->
             a[i + k \div 15] \div 2^(k % 15)
             + (IF i + k \div 15 < Len(a)
                THEN (a[i + k \div 15 + 1] % 2^(k % 15)) * 2^(15 - (k % 15))
                ELSE 0)])

\* the number of bits of a limb
BitLenSmall(x) == Cardinality({j \in 0 .. 14 : 2^j <= x})

BBitLen(a) ==
    IF a = <<>> THEN 0 ELSE 15 * (Len(a) - 1) + BitLenSmall(a[Len(a)])

BOdd(a) == a # <<>> /\ Head(a) % 2 = 1

\* the number of trailing zero bits of a limb x > 0
TzSmall(x) == Cardinality({j \in 1 .. 14 : x % 2^j = 0})

\* the number of trailing zero bits of a > 0
BTz(a) ==
    LET low == CHOOSE i \in 1 .. Len(a) :
                   a[i] # 0 /\ \A j \in 1 .. i - 1 : a[j] = 0
    IN  15 * (low - 1) + TzSmall(a[low])

\* d * q <= x for a digit q
DigitFits(x, d, q) == BCmp(BTrim(BMulSmall(d, q, 0)), x) <= 0

\* the largest of from, from + step, ..., from + 31 * step that fits, given
\* that from fits
LargestFitting(x, d, from, step) ==
    from + step * Cardinality({h \in 1 .. 31 : DigitFits(x, d, from + step * h)})

\* the largest digit q below Base with d * q <= x, five bits at a time
BDigit(x, d) ==
    LargestFitting(x, d,
        LargestFitting(x, d, LargestFitting(x, d, 0, 1024), 32), 1)

\* schoolbook long division, one limb of the quotient at a time, from the top:
\* <<n \div d, n % d>> for d > 0, the quotient before trimming
RECURSIVE BDivLong(_, _)
BDivLong(n, d) ==
    IF n = <<>> THEN << <<>>, <<>> >>
    ELSE LET hi == BDivLong(Tail(n), d)
         IN  IF hi[2] = <<>> /\ Head(n) = 0
             THEN << <<0>> \o hi[1], <<>> >>
             ELSE LET x == BTrim(<<Head(n)>> \o hi[2])
                      q == BDigit(x, d)
                  IN  << <<q>> \o hi[1],
                         BSub(x, BTrim(BMulSmall(d, q, 0))) >>

BDivMod(n, d) ==
    IF Len(d) = 1
    THEN LET r == BDivSmall(n, d[1]) IN <<r[1], BN(r[2])>>
    ELSE LET r == BDivLong(n, d) IN <<BTrim(r[1]), r[2]>>

(***************************************************************************)
(* IEEE-754 binary64 values and operations, round to nearest, ties to even *)
(***************************************************************************)
FZero == [s |-> 0, m |-> <<>>, e |-> 0]

\* the float m * 2^e for an exact m of at most 53 bits: odd mantissa
FCanon(s, m, e) ==
    IF m = <<>> THEN FZero
    ELSE LET tz == BTz(m) IN [s |-> s, m |-> BShr(m, tz), e |-> e + tz]

\* the float nearest to the exact value m * 2^e
FRound(s, m, e) ==
    LET L == BBitLen(m)
    IN  IF L <= 53 THEN FCanon(s, m, e)
        ELSE LET k    == L - 53
                 q    == BShr(m, k)
                 rem  == BSub(m, BShl(q, k))
                 half == BShl(<<1>>, k - 1)
                 c    == BCmp(rem, half)
                 up   == c > 0 \/ (c = 0 /\ BOdd(q))
             IN  FCanon(s, IF up THEN BAdd(q, <<1>>) ELSE q, e + k)

\* float(n) for a Python int n, 0 <= n < 2^30
FInt(n) == FCanon(0, BN(n), 0)

FNeg(a) == IF a.m = <<>> THEN a ELSE [a EXCEPT !.s = 1 - a.s]

FIsZero(a) == a.m = <<>>

\* -1, 0, 1 as |a| < |b|, |a| = |b|, |a| > |b|
FCmpMag(a, b) ==
    IF a.m = <<>> THEN (IF b.m = <<>> THEN 0 ELSE -1)
    ELSE IF b.m = <<>> THEN 1
    ELSE LET ta == BBitLen(a.m) + a.e
             tb == BBitLen(b.m) + b.e
         IN  IF ta < tb THEN -1
             ELSE IF ta > tb THEN 1
             ELSE LET lo == Min2(a.e, b.e)
                  IN  BCmp(BShl(a.m, a.e - lo), BShl(b.m, b.e - lo))

\* -1, 0, 1 as a < b, a = b, a > b
FCmp(a, b) ==
    IF a.s # b.s
    THEN (IF a.m = <<>> /\ b.m = <<>> THEN 0 ELSE IF a.s = 1 THEN -1 ELSE 1)
    ELSE IF a.s = 0 THEN FCmpMag(a, b) ELSE FCmpMag(b, a)

FLt(a, b) == FCmp(a, b) < 0

FGt(a, b) == FCmp(a, b) > 0

FLe(a, b) == FCmp(a, b) <= 0

\* Python max(a, b): b only when b > a
FMax(a, b) == IF FGt(b, a) THEN b ELSE a

\* Python min(a, b): b only when b < a
FMin(a, b) == IF FLt(b, a) THEN b ELSE a

FAdd(a, b) ==
    IF a.m = <<>> THEN b
    ELSE IF b.m = <<>> THEN a
    ELSE LET lo == Min2(a.e, b.e)
             x  == BShl(a.m, a.e - lo)
             y  == BShl(b.m, b.e - lo)
             c  == BCmp(x, y)
         IN  IF a.s = b.s THEN FRound(a.s, BAdd(x, y), lo)
             ELSE IF c = 0 THEN FZero
             ELSE IF c > 0 THEN FRound(a.s, BSub(x, y), lo)
             ELSE FRound(b.s, BSub(y, x), lo)

FSub(a, b) == FAdd(a, FNeg(b))

FMul(a, b) ==
    IF a.m = <<>> \/ b.m = <<>> THEN FZero
    ELSE FRound((a.s + b.s) % 2, BMul(a.m, b.m), a.e + b.e)

\* a / b for b # 0: the quotient of the mantissas to at least 56 bits, with a
\* sticky bit for a non-zero remainder, then rounded once
FDiv(a, b) ==
    IF a.m = <<>> THEN FZero
    ELSE LET k  == Max2(0, 56 + BBitLen(b.m) - BBitLen(a.m))
             qr == BDivMod(BShl(a.m, k), b.m)
             st == IF qr[2] = <<>> THEN <<>> ELSE <<1>>
         IN  FRound((a.s + b.s) % 2, BAdd(BAdd(qr[1], qr[1]), st),
                    a.e - b.e - k - 1)

\* the float a decimal literal p/q denotes: the correctly rounded quotient
FLit(p, q) == FDiv(FInt(p), FInt(q))

\* the literal 0.2: the binary64 value 0x1999999999999A * 2^-55, which is
\* FLit(2, 10), written out
F0_2 == [s |-> 0, m |-> <<19661, 6553, 13107, 102>>, e |-> -54]

\* the literal 0.5
F0_5 == [s |-> 0, m |-> <<1>>, e |-> -1]

\* the literal 1.0
F1 == [s |-> 0, m |-> <<1>>, e |-> 0]

\* the literal 2.0
F2 == [s |-> 0, m |-> <<1>>, e |-> 1]

(***************************************************************************)
(* Strings.  A name or a message is a sequence of one-character strings    *)
(* (a template's fixed text is kept as one token), so that lower(),        *)
(* capitalize() and startswith() are computed and not assumed.             *)
(***************************************************************************)
LowerOf ==
    [c \in {"A", "B", "M", "P", "C", "T"} |->
        CASE c = "A" -> "a" [] c = "B" -> "b" [] c = "M" -> "m"
          [] c = "P" -> "p" [] c = "C" -> "c" [] c = "T" -> "t"]

UpperOf ==
    [c \in {"a", "b", "m", "p", "c", "t"} |->
        CASE c = "a" -> "A" [] c = "b" -> "B" [] c = "m" -> "M"
          [] c = "p" -> "P" [] c = "c" -> "C" [] c = "t" -> "T"]

LowerChar(c) == IF c \in DOMAIN LowerOf THEN LowerOf[c] ELSE c

UpperChar(c) == IF c \in DOMAIN UpperOf THEN UpperOf[c] ELSE c

\* str.lower()
Lower(str) == [i \in DOMAIN str |-> LowerChar(str[i])]

\* str.capitalize(): the first character upper-cased, the rest lower-cased
Capitalize(str) ==
    [i \in DOMAIN str |-> IF i = 1 THEN UpperChar(str[1]) ELSE LowerChar(str[i])]

\* str.startswith(prefix)
StartsWith(str, prefix) ==
    /\ Len(prefix) <= Len(str)
    /\ \A i \in DOMAIN prefix : str[i] = prefix[i]

\* x in list
InList(x, list) == \E i \in DOMAIN list : list[i] = x

(***************************************************************************)
(* Battle outcome evaluator: app/utils/pokemon_utils.py                    *)
(***************************************************************************)
TYPE_ADVANTAGES ==
    [ normal   |-> <<>>,
      fire     |-> <<"grass", "ice", "bug", "steel">>,
      water    |-> <<"fire", "ground", "rock">>,
      electric |-> <<"water", "flying">>,
      grass    |-> <<"water", "ground", "rock">>,
      ice      |-> <<"grass", "ground", "flying", "dragon">>,
      fighting |-> <<"normal", "ice", "rock", "dark", "steel">>,
      poison   |-> <<"grass", "fairy">>,
      ground   |-> <<"fire", "electric", "poison", "rock", "steel">>,
      flying   |-> <<"grass", "fighting", "bug">>,
      psychic  |-> <<"fighting", "poison">>,
      bug      |-> <<"grass", "psychic", "dark">>,
      rock     |-> <<"fire", "ice", "flying", "bug">>,
      ghost    |-> <<"psychic", "ghost">>,
      dragon   |-> <<"dragon">>,
      dark     |-> <<"psychic", "ghost">>,
      steel    |-> <<"ice", "rock", "fairy">>,
      fairy    |-> <<"fighting", "dragon", "dark">> ]

\* the table without its last entry
TYPE_IMMUNITIES_BUT_DRAGON ==
    [ normal   |-> <<"ghost">>,
      electric |-> <<"ground">>,
      fighting |-> <<"ghost">>,
      poison   |-> <<"steel">>,
      ground   |-> <<"flying">>,
      psychic  |-> <<"dark">>,
      ghost    |-> <<"normal">> ]

TYPE_IMMUNITIES ==
    [ normal   |-> <<"ghost">>,
      electric |-> <<"ground">>,
      fighting |-> <<"ghost">>,
      poison   |-> <<"steel">>,
      ground   |-> <<"flying">>,
      psychic  |-> <<"dark">>,
      ghost    |-> <<"normal">>,
      dragon   |-> <<"fairy">> ]

\* any(dtype in TYPE_IMMUNITIES[attacker_type] for dtype in defender_types)
ImmuneFirstOnly(attacker_type, defender_types) ==
    /\ attacker_type \in DOMAIN TYPE_IMMUNITIES
    /\ defender_types # <<>>
    /\ InList(defender_types[1], TYPE_IMMUNITIES[attacker_type])

AnyImmune(attacker_type, defender_types) ==
    /\ attacker_type \in DOMAIN TYPE_IMMUNITIES
    /\ \E j \in DOMAIN defender_types :
          InList(defender_types[j], TYPE_IMMUNITIES[attacker_type])

\* the inner loop: effectiveness *= 2.0 for every defender type that is in
\* TYPE_ADVANTAGES[attacker_type]
SuperEffectiveOnce(attacker_type, defender_types, effectiveness) ==
    IF /\ attacker_type \in DOMAIN TYPE_ADVANTAGES
       /\ \E j \in DOMAIN defender_types :
             InList(defender_types[j], TYPE_ADVANTAGES[attacker_type])
    THEN FMul(effectiveness, F2)
    ELSE effectiveness

\* the inner loop cut to the defender's first type
SuperEffectiveFirstDefender(attacker_type, defender_types, effectiveness) ==
    IF /\ attacker_type \in DOMAIN TYPE_ADVANTAGES
       /\ defender_types # <<>>
       /\ InList(defender_types[1], TYPE_ADVANTAGES[attacker_type])
    THEN FMul(effectiveness, F2)
    ELSE effectiveness

RECURSIVE SuperEffectiveLoop(_, _, _)
SuperEffectiveLoop(attacker_type, defender_types, effectiveness) ==
    IF attacker_type \notin DOMAIN TYPE_ADVANTAGES \/ defender_types = <<>>
    THEN effectiveness
    ELSE SuperEffectiveLoop(attacker_type, Tail(defender_types),
            IF InList(Head(defender_types), TYPE_ADVANTAGES[attacker_type])
            THEN FMul(effectiveness, F2)
            ELSE effectiveness)

\* the outer loop over attacker_types, with its early return on an immunity
RECURSIVE AttackerLoop(_, _, _)
AttackerLoop(attacker_types, defender_types, effectiveness) ==
    IF attacker_types = <<>> THEN effectiveness
    ELSE IF AnyImmune(Head(attacker_types), defender_types) THEN FZero
    ELSE AttackerLoop(Tail(attacker_types), defender_types,
            SuperEffectiveLoop(Head(attacker_types), defender_types,
                               effectiveness))

calculate_type_effectiveness(attacker_types, defender_types) ==
    AttackerLoop(attacker_types, defender_types, F1)

\* only the first factor is kept
JoinFirstSentence(factors) == IF factors = <<>> THEN <<>> ELSE Head(factors)

\* ". ".join(reasoning_factors) + ".": the sentences in order, each a sequence
\* of tokens, with the separators and the closing full stop
RECURSIVE JoinSentences(_)
JoinSentences(factors) ==
    IF factors = <<>> THEN <<>>
    ELSE IF Len(factors) = 1 THEN Head(factors)
    ELSE Head(factors) \o <<". ">> \o JoinSentences(Tail(factors))

\* the ladder with the first Pokemon winning on equal turns to win
FinalDeterminationFirstOnEqualTurns(p1_turns_to_win, p2_turns_to_win, p1_speed, p2_speed, p1_hp, p2_hp, name1, name2) ==
    IF FLe(p1_turns_to_win, p2_turns_to_win) THEN name1
    ELSE name2

\* the second branch of the last if: the first Pokemon on equal hp too
FinalDeterminationFirst(p1_turns_to_win, p2_turns_to_win, p1_speed, p2_speed, p1_hp, p2_hp, name1, name2) ==
    IF FLt(p1_turns_to_win, p2_turns_to_win) THEN name1
    ELSE IF FLt(p2_turns_to_win, p1_turns_to_win) THEN name2
    ELSE IF p1_speed > p2_speed THEN name1
    ELSE IF p2_speed > p1_speed THEN name2
    ELSE IF p1_hp >= p2_hp THEN name1
    ELSE name2

\* the ladder with the turns comparison reversed: more turns to win wins
FinalDeterminationHigherTurns(p1_turns_to_win, p2_turns_to_win, p1_speed, p2_speed, p1_hp, p2_hp, name1, name2) ==
    IF FGt(p1_turns_to_win, p2_turns_to_win) THEN name1
    ELSE IF FGt(p2_turns_to_win, p1_turns_to_win) THEN name2
    ELSE IF p1_speed > p2_speed THEN name1
    ELSE IF p2_speed > p1_speed THEN name2
    ELSE IF p1_hp > p2_hp THEN name1
    ELSE name2

\* "Make the final determination": lines 176-191
FinalDetermination(p1_turns_to_win, p2_turns_to_win, p1_speed, p2_speed, p1_hp, p2_hp, name1, name2) ==
    IF FLt(p1_turns_to_win, p2_turns_to_win) THEN name1
    ELSE IF FLt(p2_turns_to_win, p1_turns_to_win) THEN name2
    ELSE IF p1_speed > p2_speed THEN name1
    ELSE IF p2_speed > p1_speed THEN name2
    ELSE IF p1_hp > p2_hp THEN name1
    ELSE name2

\* the floor at 2 in place of 1
DivisorFlooredAtTwo(attack_power) == FMax(attack_power, F2)

\* the divisor without its floor of 1
DivisorUnfloored(attack_power) == attack_power

\* lines 146-147: max(p_attack_power, 1)
Divisor(attack_power) == FMax(attack_power, F1)

\* lines 130-136: max(attack * effectiveness, special_attack * effectiveness)
AttackPowerOf(stats, effectiveness) ==
    FMax(FMul(FInt(stats.attack), effectiveness),
         FMul(FInt(stats.special_attack), effectiveness))

\* the two divisions of lines 146-147: / raises ZeroDivisionError on a divisor
\* equal to 0
DivisionRaises(first, second) ==
    IF FIsZero(first) \/ FIsZero(second)
    THEN <<"ZeroDivisionError">>
    ELSE <<>>

\* the exception that leaves analyze_pokemon_battle, <<>> when it returns
BattleRaised(pokemon1, pokemon2) ==
    DivisionRaises(
       Divisor(AttackPowerOf(pokemon1.base_stats,
                  calculate_type_effectiveness(pokemon1.types, pokemon2.types))),
       Divisor(AttackPowerOf(pokemon2.base_stats,
                  calculate_type_effectiveness(pokemon2.types, pokemon1.types))))

\* every local of analyze_pokemon_battle, so that each step can be inspected
BattleLocals(pokemon1, pokemon2) ==
    LET s1 == pokemon1.base_stats
        s2 == pokemon2.base_stats
        p1_type_effectiveness ==
            calculate_type_effectiveness(pokemon1.types, pokemon2.types)
        p2_type_effectiveness ==
            calculate_type_effectiveness(pokemon2.types, pokemon1.types)
        p1_attack    == FMul(FInt(s1.attack), p1_type_effectiveness)
        p1_sp_attack == FMul(FInt(s1.special_attack), p1_type_effectiveness)
        p1_attack_power == FMax(p1_attack, p1_sp_attack)
        p2_attack    == FMul(FInt(s2.attack), p2_type_effectiveness)
        p2_sp_attack == FMul(FInt(s2.special_attack), p2_type_effectiveness)
        p2_attack_power == FMax(p2_attack, p2_sp_attack)
        p1_defense == FDiv(FInt(s1.defense + s1.special_defense), F2)
        p2_defense == FDiv(FInt(s2.defense + s2.special_defense), F2)
        p1_effective_hp == FMul(FInt(s1.hp), FDiv(p1_defense, FInt(100)))
        p2_effective_hp == FMul(FInt(s2.hp), FDiv(p2_defense, FInt(100)))
        p1_turns_to_win == FDiv(p2_effective_hp, Divisor(p1_attack_power))
        p2_turns_to_win == FDiv(p1_effective_hp, Divisor(p2_attack_power))
        p1_speed == s1.speed
        p2_speed == s2.speed
        n1 == Capitalize(pokemon1.name)
        n2 == Capitalize(pokemon2.name)
        type_factor ==
            IF FGt(p1_type_effectiveness, p2_type_effectiveness)
            THEN << n1 \o <<" has a type advantage over ">> \o n2 >>
            ELSE IF FGt(p2_type_effectiveness, p1_type_effectiveness)
            THEN << n2 \o <<" has a type advantage over ">> \o n1 >>
            ELSE << <<"Neither Pokemon has a significant type advantage">> >>
        speed_factor ==
            IF p1_speed > p2_speed
            THEN << n1 \o <<" is faster and would attack first">> >>
            ELSE IF p2_speed > p1_speed
            THEN << n2 \o <<" is faster and would attack first">> >>
            ELSE <<>>
        attack_factor ==
            IF FGt(p1_attack_power, p2_attack_power)
            THEN << n1 \o <<" has stronger attacking moves">> >>
            ELSE IF FGt(p2_attack_power, p1_attack_power)
            THEN << n2 \o <<" has stronger attacking moves">> >>
            ELSE <<>>
        reasoning_factors == type_factor \o speed_factor \o attack_factor
    IN  [ p1_type_effectiveness |-> p1_type_effectiveness,
          p2_type_effectiveness |-> p2_type_effectiveness,
          p1_attack_power |-> p1_attack_power,
          p2_attack_power |-> p2_attack_power,
          p1_divisor |-> Divisor(p1_attack_power),
          p2_divisor |-> Divisor(p2_attack_power),
          p1_effective_hp |-> p1_effective_hp,
          p2_effective_hp |-> p2_effective_hp,
          p1_turns_to_win |-> p1_turns_to_win,
          p2_turns_to_win |-> p2_turns_to_win,
          winner |-> FinalDetermination(p1_turns_to_win, p2_turns_to_win,
                        p1_speed, p2_speed, s1.hp, s2.hp,
                        pokemon1.name, pokemon2.name),
          reasoning |-> JoinSentences(reasoning_factors) \o <<".">> ]

\* the returned tuple (winner, reasoning)
analyze_pokemon_battle(pokemon1, pokemon2) ==
    LET r == BattleLocals(pokemon1, pokemon2) IN <<r.winner, r.reasoning>>

(***************************************************************************)
(* Battle animation compositor: app/utils/visualization_utils.py           *)
(***************************************************************************)
\* the chart's three multipliers: 0, 0.5 and 2
Z == FZero

H == F0_5

D == F2

type_chart ==
    [ normal   |-> [rock |-> H, ghost |-> Z, steel |-> H],
      fire     |-> [fire |-> H, water |-> H, grass |-> D, ice |-> D, bug |-> D,
                    rock |-> H, dragon |-> H, steel |-> D],
      water    |-> [fire |-> D, water |-> H, grass |-> H, ground |-> D,
                    rock |-> D, dragon |-> H],
      electric |-> [water |-> D, electric |-> H, grass |-> H, ground |-> Z,
                    flying |-> D, dragon |-> H],
      grass    |-> [fire |-> H, water |-> D, grass |-> H, poison |-> H,
                    ground |-> D, flying |-> H, bug |-> H, rock |-> D,
                    dragon |-> H, steel |-> H],
      ice      |-> [fire |-> H, water |-> H, grass |-> D, ice |-> H,
                    ground |-> D, flying |-> D, dragon |-> D, steel |-> H],
      fighting |-> [normal |-> D, ice |-> D, poison |-> H, flying |-> H,
                    psychic |-> H, bug |-> H, rock |-> D, ghost |-> Z,
                    dark |-> D, steel |-> D, fairy |-> H],
      poison   |-> [grass |-> D, poison |-> H, ground |-> H, rock |-> H,
                    ghost |-> H, steel |-> Z, fairy |-> D],
      ground   |-> [fire |-> D, electric |-> D, grass |-> H, poison |-> D,
                    flying |-> Z, bug |-> H, rock |-> D, steel |-> D],
      flying   |-> [electric |-> H, grass |-> D, fighting |-> D, bug |-> D,
                    rock |-> H, steel |-> H],
      psychic  |-> [fighting |-> D, poison |-> D, psychic |-> H, dark |-> Z,
                    steel |-> H],
      bug      |-> [fire |-> H, grass |-> D, fighting |-> H, poison |-> H,
                    flying |-> H, psychic |-> D, ghost |-> H, dark |-> D,
                    steel |-> H, fairy |-> H],
      rock     |-> [fire |-> D, ice |-> D, fighting |-> H, ground |-> H,
                    flying |-> D, bug |-> D, steel |-> H],
      ghost    |-> [normal |-> Z, psychic |-> D, ghost |-> D, dark |-> H],
      dragon   |-> [dragon |-> D, steel |-> H, fairy |-> Z],
      dark     |-> [fighting |-> H, psychic |-> D, ghost |-> D, dark |-> H,
                    fairy |-> H],
      steel    |-> [fire |-> H, water |-> H, electric |-> H, ice |-> D,
                    rock |-> D, steel |-> H, fairy |-> D],
      fairy    |-> [fighting |-> D, poison |-> H, bug |-> H, dragon |-> D,
                    dark |-> D, steel |-> H] ]

\* for defend_type in defend_types: multiply by the chart's entry when present
RECURSIVE ChartDefendLoop(_, _, _)
ChartDefendLoop(attack_type, defend_types, effectiveness) ==
    IF defend_types = <<>> THEN effectiveness
    ELSE ChartDefendLoop(attack_type, Tail(defend_types),
            IF /\ attack_type \in DOMAIN type_chart
               /\ Head(defend_types) \in DOMAIN type_chart[attack_type]
            THEN FMul(effectiveness, type_chart[attack_type][Head(defend_types)])
            ELSE effectiveness)

RECURSIVE ChartAttackLoop(_, _, _)
ChartAttackLoop(attack_types, defend_types, effectiveness) ==
    IF attack_types = <<>> THEN effectiveness
    ELSE ChartAttackLoop(Tail(attack_types), defend_types,
            ChartDefendLoop(Head(attack_types), defend_types, effectiveness))

get_type_effectiveness(pokemon1_data, pokemon2_data) ==
    [ p1_against_p2 |->
          ChartAttackLoop(pokemon1_data.types, pokemon2_data.types, F1),
      p2_against_p1 |->
          ChartAttackLoop(pokemon2_data.types, pokemon1_data.types, F1) ]

\* Every element from a damage frame on receives the same addition, so after the
\* loop `for frame in damage_frames: p_decreases[frame:] += amount` the element
\* at index k holds 0.0 + amount + ... + amount, one addition for each damage
\* frame at or before k, added one at a time.  RepeatedSums(amount, n) lists
\* these sums for 0, 1, ..., n additions.
AppendSum(sums, amount) == Append(sums, FAdd(sums[Len(sums)], amount))

RECURSIVE RepeatedSums(_, _)
RepeatedSums(amount, n) ==
    IF n = 0 THEN <<FZero>>
    ELSE AppendSum(RepeatedSums(amount, n - 1), amount)

\* the number of damage frames at or before index k (indices from 0)
DamageCount(damage_frames, k) ==
    Cardinality({j \in DOMAIN damage_frames : damage_frames[j] <= k})

\* p_decreases * factor, element by element
RECURSIVE Scale(_, _)
Scale(values, factor) ==
    IF values = <<>> THEN <<>>
    ELSE <<FMul(Head(values), factor)>> \o Scale(Tail(values), factor)

\* lines 951-952 and 959-960: the amount one damage frame adds, at the rate
\* min(2.0, max(0.5, effectiveness))
DamageAmount(final_health, effectiveness, draws) ==
    FMul(FDiv(FSub(F1, final_health), FInt(draws)),
         FMin(F2, FMax(F0_5, effectiveness)))

\* lines 966-970: if p_decreases[-1] > 0, every element is multiplied by
\* (1.0 - final_health) / p_decreases[-1]
Normalise(sums, last, final_health) ==
    IF FGt(last, FZero)
    THEN Scale(sums, FDiv(FSub(F1, final_health), last))
    ELSE sums

\* the array of num_frames elements whose element k holds the value for the
\* number of damage frames at or before k
Spread(num_frames, damage_frames, values) ==
    <<>> \o [k \in 1..num_frames |->
               values[DamageCount(damage_frames, k - 1) + 1]]

CurveOfSums(num_frames, final_health, damage_frames, sums) ==
    Spread(num_frames, damage_frames,
           Normalise(sums, sums[DamageCount(damage_frames, num_frames - 1) + 1],
                     final_health))

\* one side of generate_health_decreases: the curve of the side whose
\* opponent's multiplier is `effectiveness`, for the sorted damage frames drawn
HealthCurve(num_frames, final_health, effectiveness, damage_frames) ==
    CurveOfSums(num_frames, final_health, damage_frames,
        RepeatedSums(DamageAmount(final_health, effectiveness,
                                  Len(damage_frames)),
                     Len(damage_frames)))

generate_health_decreases(num_frames, p1_final_health, p2_final_health, type_effectiveness, p1_damage_frames, p2_damage_frames) ==
    << HealthCurve(num_frames, p1_final_health,
                   type_effectiveness.p2_against_p1, p1_damage_frames),
       HealthCurve(num_frames, p2_final_health,
                   type_effectiveness.p1_against_p2, p2_damage_frames) >>

\* A message template: its tokens in order, "{own}" and "{other}" standing for
\* the capitalized names of the side the message is built for and of its opponent
RECURSIVE Fill(_, _, _)
Fill(template, own, other) ==
    IF template = <<>> THEN <<>>
    ELSE (CASE Head(template) = "{own}"   -> own
            [] Head(template) = "{other}" -> other
            [] OTHER -> <<Head(template)>>)
         \o Fill(Tail(template), own, other)

\* the two messages of each type branch of generate_battle_messages
TypeTemplates ==
    [ fire     |-> << <<"{own}", " uses a powerful Fire-type move!">>,
                      <<"{own}", " unleashes a fiery attack!">> >>,
      water    |-> << <<"{own}", " uses a Water-type attack!">>,
                      <<"{own}", " splashes ", "{other}", " with a Water attack!">> >>,
      electric |-> << <<"{own}", " unleashes an Electric attack!">>,
                      <<"{own}", " shocks ", "{other}", " with electricity!">> >>,
      grass    |-> << <<"{own}", " uses a Grass-type move!">>,
                      <<"{own}", " attacks with plant power!">> >>,
      poison   |-> << <<"{own}", " tries to poison ", "{other}", "!">>,
                      <<"{own}", " uses a Poison-type attack!">> >>,
      ground   |-> << <<"{own}", " causes an earthquake!">>,
                      <<"{own}", " uses a Ground-type move!">> >>,
      flying   |-> << <<"{own}", " attacks from the air!">>,
                      <<"{own}", " uses a Flying-type move!">> >>,
      psychic  |-> << <<"{own}", " uses psychic powers!">>,
                      <<"{own}", " confuses ", "{other}", " with a Psychic attack!">> >>,
      bug      |-> << <<"{own}", " uses a Bug-type move!">>,
                      <<"{own}", " swarms ", "{other}", "!">> >>,
      rock     |-> << <<"{own}", " hurls rocks at ", "{other}", "!">>,
                      <<"{own}", " uses a Rock-type move!">> >>,
      ghost    |-> << <<"{own}", " uses a spooky Ghost-type move!">>,
                      <<"{own}", " disappears and surprises ", "{other}", "!">> >>,
      ice      |-> << <<"{own}", " uses a freezing Ice-type move!">>,
                      <<"{own}", " creates a blizzard!">> >>,
      dragon   |-> << <<"{own}", " unleashes dragon fury!">>,
                      <<"{own}", " uses a mighty Dragon-type move!">> >>,
      dark     |-> << <<"{own}", " uses a sneaky Dark-type move!">>,
                      <<"{own}", " attacks from the shadows!">> >>,
      steel    |-> << <<"{own}", " uses a solid Steel-type move!">>,
                      <<"{own}", "'s body becomes metallic!">> >>,
      fairy    |-> << <<"{own}", " uses Fairy magic!">>,
                      <<"{own}", " sparkles with Fairy-type energy!">> >> ]

\* the if/elif chain over one type; the else branch names the type itself
TypeMessages(type, own, other) ==
    IF type \in DOMAIN TypeTemplates
    THEN << Fill(TypeTemplates[type][1], own, other),
            Fill(TypeTemplates[type][2], own, other) >>
    ELSE << own \o <<" uses a ", type, "-type move!">> >>

RECURSIVE TypeMessagesLoop(_, _, _)
TypeMessagesLoop(types, own, other) ==
    IF types = <<>> THEN <<>>
    ELSE TypeMessages(Head(types), own, other)
         \o TypeMessagesLoop(Tail(types), own, other)

\* p_stats.get(stat, 0)
StatGet(stats, stat) == IF stat \in DOMAIN stats THEN stats[stat] ELSE 0

\* the list built by generate_battle_messages, before random.shuffle; a message
\* is its characters as far as a name reaches into it (the names, and the first
\* character of the fixed sentences) followed by the rest of the text
BattleMessagePool(pokemon1_data, pokemon2_data, type_effectiveness) ==
    LET p1_name  == Capitalize(pokemon1_data.name)
        p2_name  == Capitalize(pokemon2_data.name)
        p1_stats == pokemon1_data.base_stats
        p2_stats == pokemon2_data.base_stats
        e12      == type_effectiveness.p1_against_p2
        e21      == type_effectiveness.p2_against_p1
        fast     == IF StatGet(p1_stats, "speed") > StatGet(p2_stats, "speed")
                    THEN <<p1_name, p2_name>> ELSE <<p2_name, p1_name>>
        strong   == IF StatGet(p1_stats, "attack") > StatGet(p2_stats, "attack")
                    THEN <<p1_name, p2_name>> ELSE <<p2_name, p1_name>>
        tough    == IF StatGet(p1_stats, "defense") > StatGet(p2_stats, "defense")
                    THEN <<p1_name, p2_name>> ELSE <<p2_name, p1_name>>
    IN  << p1_name \o <<" attacks ">> \o p2_name \o <<"!">>,
           p2_name \o <<" strikes back!">> >>
        \o TypeMessagesLoop(pokemon1_data.types, p1_name, p2_name)
        \o TypeMessagesLoop(pokemon2_data.types, p2_name, p1_name)
        \o (IF FGt(e12, F1)
            THEN << p1_name \o <<"'s attack is super effective!">>,
                    <<"I", "t's super effective against ">> \o p2_name \o <<"!">> >>
            ELSE <<>>)
        \o (IF FGt(e21, F1)
            THEN << p2_name \o <<"'s attack is super effective!">>,
                    <<"I", "t's super effective against ">> \o p1_name \o <<"!">> >>
            ELSE <<>>)
        \o (IF FLt(e12, F1)
            THEN << p1_name \o <<"'s attack is not very effective...">>,
                    p2_name \o <<" resists the attack!">> >>
            ELSE <<>>)
        \o (IF FLt(e21, F1)
            THEN << p2_name \o <<"'s attack is not very effective...">>,
                    p1_name \o <<" resists the attack!">> >>
            ELSE <<>>)
        \o << fast[1] \o <<" moves quickly with its superior speed!">>,
              fast[1] \o <<" attacks first due to its speed!">>,
              strong[1] \o <<" hits hard with its strong attack!">>,
              strong[1] \o <<"'s powerful strike damages ">> \o strong[2] \o <<"!">>,
              tough[1] \o <<" withstands the attack with its high defense!">>,
              tough[1] \o <<" shows impressive defense!">> >>
        \o << <<"B", "oth Pokemon are battling hard!">>,
              p1_name \o <<" dodges and prepares to strike!">>,
              p2_name \o <<" is charging a powerful attack!">>,
              <<"T", "he battle intensifies as both Pokemon give it their all!">>,
              p1_name \o <<" and ">> \o p2_name \o <<" circle each other cautiously.">>,
              p1_name \o <<" looks determined to win!">>,
              p2_name \o <<" refuses to back down!">>,
              <<"T", "he air crackles with energy as the battle continues!">> >>

\* one outcome of random.shuffle: the pool rotated left by k places
Rotate(list, k) ==
    [j \in DOMAIN list |-> list[((j - 1 + k) % Len(list)) + 1]]

\* pokemon_name.lower().replace(" ", "-").replace(".", "").replace("'", "")
RECURSIVE NormalizeName(_)
NormalizeName(name) ==
    IF name = <<>> THEN <<>>
    ELSE LET c == LowerChar(Head(name))
         IN  (IF c = " " THEN <<"-">>
              ELSE IF c = "." \/ c = "'" THEN <<>>
              ELSE <<c>>) \o NormalizeName(Tail(name))

\* the image get_pokemon_sprite returns for a name, a variant and a side: it is
\* identified by the cache key the function builds
get_pokemon_sprite(pokemon_name, sprite_variant, is_first_pokemon) ==
    [ pokemon_name |-> NormalizeName(pokemon_name),
      sprite_side  |-> IF is_first_pokemon THEN "back" ELSE "front",
      sprite_variant |-> sprite_variant ]

\* lines 543-557
SpriteVariant(use_shiny, use_female) ==
    IF use_shiny /\ use_female THEN "shiny_female"
    ELSE IF use_shiny THEN "shiny"
    ELSE IF use_female THEN "female"
    ELSE "default"

\* create_battle_frame: the composed image, identified by what it is drawn from
create_battle_frame(pokemon1_sprite, pokemon2_sprite, pokemon1_name, pokemon2_name, pokemon1_health, pokemon2_health, message) ==
    [ pokemon1_sprite |-> pokemon1_sprite,
      pokemon2_sprite |-> pokemon2_sprite,
      pokemon1_name   |-> pokemon1_name,
      pokemon2_name   |-> pokemon2_name,
      pokemon1_health |-> pokemon1_health,
      pokemon2_health |-> pokemon2_health,
      message         |-> message ]

\* dict.get(key, default)
DictGet(dict, key, default) == IF key \in DOMAIN dict THEN dict[key] ELSE default

ReasoningCut == 100

\* f"{reasoning[:100]}{'...' if len(reasoning) > 100 else ''}"
ReasoningShown(reasoning) ==
    [ text  |-> reasoning.text,
      chars |-> Min2(reasoning.len, ReasoningCut),
      dots  |-> reasoning.len > ReasoningCut ]

DefaultReasoning == [text |-> "Battle concluded!", len |-> 17]

\* the condition of the while loop of lines 614-615, without len(messages) > 1
ActorFainted(message, p1_health, p2_health, p1_cap, p2_cap) ==
    \/ FLe(p1_health, FZero) /\ StartsWith(message, p1_cap)
    \/ FLe(p2_health, FZero) /\ StartsWith(message, p2_cap)

\* no replacement: the message of the tick's own index is shown
KeepMessage(messages, start, message_index, p1_health, p2_health, p1_cap, p2_cap) ==
    messages[message_index + 1]

\* the while loop of lines 614-627, entered with message = messages[message_index]
\* (indices from 0); `start` is i % len(messages)
RECURSIVE SkipFainted(_, _, _, _, _, _, _)
SkipFainted(messages, start, message_index, p1_health, p2_health, p1_cap, p2_cap) ==
    LET message == messages[message_index + 1]
        next    == (message_index + 1) % Len(messages)
    IN  IF /\ ActorFainted(message, p1_health, p2_health, p1_cap, p2_cap)
           /\ Len(messages) > 1
        THEN IF next = start /\ FLe(p1_health, FZero)
             THEN p1_cap \o <<" has fainted!">>
             ELSE IF next = start /\ FLe(p2_health, FZero)
             THEN p2_cap \o <<" has fainted!">>
             ELSE SkipFainted(messages, start, next, p1_health, p2_health,
                              p1_cap, p2_cap)
        ELSE message

\* the only copy: battle_frames.append(frame) once
TickFramesOnce(frame) == <<frame>>

\* lines 638-642: the frame appended, then appended again
TickFrames(frame) == <<frame, frame>>

\* lines 656-658: the final frame three times
FinalFrames(final_frame) == <<final_frame, final_frame, final_frame>>

\* os.path.join(os.environ.get("TEMP_DIR", "/tmp"), f"battle_{int(time.time())}.gif")
\* as its components: the directory, the separator, and the parts of the file name
OutputPath(temp_dir_env, now) ==
    << (IF temp_dir_env = <<>> THEN "/tmp" ELSE temp_dir_env[1]), "/",
       "battle_", now, ".gif" >>

\* os.path.dirname of such a path: what precedes its last separator
Dirname(path) == path[1]

(***************************************************************************)
(* File cache and lookups: app/utils/visualization_utils.py, lines 13-298. *)
(* A directory is a function from cache keys to file contents; None is     *)
(* <<>> and a value v is <<v>>; a URL is the pair of the name and the slot  *)
(* it was listed under.                                                    *)
(***************************************************************************)
\* a file that exists but cannot be parsed or opened
Unreadable == [readable |-> FALSE, content |-> <<>>]

Readable(content) == [readable |-> TRUE, content |-> <<content>>]

\* get_cached_data, get_cached_image: the content, or None when the file is
\* missing or reading it raises
get_cached(files, cache_key) ==
    IF cache_key \in DOMAIN files /\ files[cache_key].readable
    THEN files[cache_key].content
    ELSE <<>>

\* save_cached_data, save_cached_image: the file written; or, the exception
\* being swallowed, no file touched ("refused") or a truncated one ("torn")
save_cached(files, cache_key, content, disk) ==
    CASE disk = "written" -> (cache_key :> Readable(content)) @@ files
      [] disk = "torn"    -> (cache_key :> Unreadable) @@ files
      [] OTHER            -> files

Url(name, slot) == <<name, slot>>

\* the "stats" list of a species record
ApiStats(hp, attack, defense, special_attack, special_defense, speed) ==
    << [base_stat |-> hp, stat |-> [name |-> "hp"]],
       [base_stat |-> attack, stat |-> [name |-> "attack"]],
       [base_stat |-> defense, stat |-> [name |-> "defense"]],
       [base_stat |-> special_attack, stat |-> [name |-> "special-attack"]],
       [base_stat |-> special_defense, stat |-> [name |-> "special-defense"]],
       [base_stat |-> speed, stat |-> [name |-> "speed"]] >>

\* the "types" list of a species record
ApiTypes(types) == [k \in DOMAIN types |-> [type |-> [name |-> types[k]]]]

\* what https://pokeapi.co/api/v2/pokemon/<name> answers with, <<>> for a 404
SpeciesRecord(name) ==
    CASE name = <<"a", "b">> ->
           << [ name |-> name,
                stats |-> ApiStats(35, 55, 40, 50, 50, 90),
                types |-> ApiTypes(<<"electric">>),
                sprites |->
                  [ back_default       |-> <<Url(name, "back_default")>>,
                    back_female        |-> <<>>,
                    back_shiny         |-> <<Url(name, "back_shiny")>>,
                    back_shiny_female  |-> <<>>,
                    front_default      |-> <<Url(name, "front_default")>>,
                    other |->
                      ("official-artwork" :>
                          [front_default |-> <<Url(name, "artwork")>>])
                      @@ ("home" :> [front_default |-> <<Url(name, "home")>>])
                  ] ] >>
      [] name = <<"p", "c">> ->
           << [ name |-> name,
                stats |-> ApiStats(78, 84, 78, 109, 85, 100),
                types |-> ApiTypes(<<"fire", "flying">>),
                sprites |->
                  [ back_default       |-> <<>>,
                    back_female        |-> <<>>,
                    back_shiny         |-> <<>>,
                    back_shiny_female  |-> <<>>,
                    front_default      |-> <<Url(name, "front_default")>>,
                    other |->
                      ("official-artwork" :> [front_default |-> <<>>]) ] ] >>
      [] OTHER -> <<>>

\* what https://pokeapi.co/api/v2/pokemon-form/<name> answers with
FormRecord(name) ==
    CASE name = <<"a", "b">> ->
           << [ name |-> name,
                sprites |->
                  [ front_default      |-> <<Url(name, "form_front_default")>>,
                    front_female       |-> <<>>,
                    front_shiny        |-> <<Url(name, "form_front_shiny")>>,
                    front_shiny_female |-> <<>> ] ] >>
      [] name = <<"p", "c">> ->
           << [ name |-> name,
                sprites |->
                  [ front_default      |-> <<>>,
                    front_female       |-> <<>>,
                    front_shiny        |-> <<>>,
                    front_shiny_female |-> <<>> ] ] >>
      [] OTHER -> <<>>

\* lines 114-125: the minimal record returned when the species lookup fails
FallbackRecord(pokemon_name) ==
    [ name |-> pokemon_name,
      sprites |->
        [ front_default |-> <<>>,
          other |-> ("official-artwork" :> [front_default |-> <<>>]) ] ]

\* the outcome of a lookup: its value, the directory afterwards, the requests
\* issued and the stages that failed; hit tells that line 96 (or 280) returned
Outcome(value, files, requests, failed) ==
    [ value |-> value, files |-> files, requests |-> requests,
      failed |-> failed, hit |-> FALSE ]

Hit(value, files) ==
    [ value |-> value, files |-> files, requests |-> <<>>, failed |-> {},
      hit |-> TRUE ]

\* a lookup that also saves the record it falls back on
DataFetchedSavingFallback(files, pokemon_name, cache_key, answer, disk) ==
    IF answer # <<>>
    THEN Outcome(answer[1],
                 save_cached(files, cache_key, answer[1], disk),
                 <<Url(pokemon_name, "pokemon")>>, {})
    ELSE Outcome(FallbackRecord(pokemon_name),
                 save_cached(files, cache_key, FallbackRecord(pokemon_name),
                             disk),
                 <<Url(pokemon_name, "pokemon")>>, {"species"})

\* lines 92-125: get_pokemon_data on a directory of .json files; `answer` is
\* the provider's response to the request (<<>> when it fails)
DataFetched(files, pokemon_name, cache_key, answer, disk) ==
    IF answer # <<>>
    THEN Outcome(answer[1],
                 save_cached(files, cache_key, answer[1], disk),
                 <<Url(pokemon_name, "pokemon")>>, {})
    ELSE Outcome(FallbackRecord(pokemon_name), files,
                 <<Url(pokemon_name, "pokemon")>>, {"species"})

get_pokemon_data_named(files, pokemon_name, reachable, disk) ==
    IF get_cached(files, <<"pokemon_">> \o pokemon_name) # <<>>
    THEN Hit(get_cached(files, <<"pokemon_">> \o pokemon_name)[1], files)
    ELSE DataFetched(files, pokemon_name, <<"pokemon_">> \o pokemon_name,
                     IF reachable THEN SpeciesRecord(pokemon_name) ELSE <<>>,
                     disk)

get_pokemon_data(files, pokemon_name, reachable, disk) ==
    get_pokemon_data_named(files, NormalizeName(pokemon_name), reachable, disk)

\* lines 277-298: get_pokemon_form_data; its value is <<>> for None and <<d>>
\* for a record d
FormFetched(files, pokemon_name, cache_key, answer, disk) ==
    IF answer # <<>>
    THEN Outcome(answer,
                 save_cached(files, cache_key, answer[1], disk),
                 <<Url(pokemon_name, "pokemon-form")>>, {})
    ELSE Outcome(<<>>, files, <<Url(pokemon_name, "pokemon-form")>>, {"form"})

get_pokemon_form_data_named(files, pokemon_name, reachable, disk) ==
    IF get_cached(files, <<"pokemon_form_">> \o pokemon_name) # <<>>
    THEN Hit(get_cached(files, <<"pokemon_form_">> \o pokemon_name), files)
    ELSE FormFetched(files, pokemon_name, <<"pokemon_form_">> \o pokemon_name,
                     IF reachable THEN FormRecord(pokemon_name) ELSE <<>>,
                     disk)

get_pokemon_form_data(files, pokemon_name, reachable, disk) ==
    get_pokemon_form_data_named(files, NormalizeName(pokemon_name), reachable,
                                disk)

\* "k in d and d[k]" for a slot holding a URL or None
Listed(sprites, slot) == slot \in DOMAIN sprites /\ sprites[slot] # <<>>

\* sprites.get(slot)
SlotGet(sprites, slot) == IF slot \in DOMAIN sprites THEN sprites[slot] ELSE <<>>

\* lines 160-171: the back sprite of the species record, else its front sprite
BackSpriteUrl(sprite_variant, sprites) ==
    IF sprite_variant = "female" /\ Listed(sprites, "back_female")
    THEN sprites["back_female"]
    ELSE IF sprite_variant = "shiny" /\ Listed(sprites, "back_shiny")
    THEN sprites["back_shiny"]
    ELSE IF sprite_variant = "shiny_female"
            /\ Listed(sprites, "back_shiny_female")
    THEN sprites["back_shiny_female"]
    ELSE IF Listed(sprites, "back_default")
    THEN sprites["back_default"]
    ELSE sprites["front_default"]

\* lines 174-186: the front sprite of the form record
FormSpriteUrl(sprite_variant, sprites) ==
    IF sprite_variant = "female" /\ SlotGet(sprites, "front_female") # <<>>
    THEN sprites["front_female"]
    ELSE IF sprite_variant = "shiny" /\ SlotGet(sprites, "front_shiny") # <<>>
    THEN sprites["front_shiny"]
    ELSE IF sprite_variant = "shiny_female"
            /\ SlotGet(sprites, "front_shiny_female") # <<>>
    THEN sprites["front_shiny_female"]
    ELSE SlotGet(sprites, "front_default")

\* lines 187-195: official artwork, then home, then the standard front sprite
SpeciesFrontUrl(sprites) ==
    IF sprites["other"]["official-artwork"]["front_default"] # <<>>
    THEN sprites["other"]["official-artwork"]["front_default"]
    ELSE IF "home" \in DOMAIN sprites["other"]
            /\ sprites["other"]["home"]["front_default"] # <<>>
    THEN sprites["other"]["home"]["front_default"]
    ELSE IF sprites["front_default"] # <<>>
    THEN sprites["front_default"]
    ELSE <<>>

\* lines 156-195: sprite_url, <<>> for None
SpriteUrl(is_first_pokemon, sprite_variant, form_data, data) ==
    IF is_first_pokemon
    THEN BackSpriteUrl(sprite_variant, data.sprites)
    ELSE IF form_data # <<>> /\ "sprites" \in DOMAIN form_data[1]
    THEN FormSpriteUrl(sprite_variant, form_data[1].sprites)
    ELSE SpeciesFrontUrl(data.sprites)

\* lines 199-257: the downloaded image made transparent and scaled down
ProcessedSprite(sprite_url) == [kind |-> "sprite", from |-> sprite_url]

\* a placeholder that does not name the Pokemon
PlaceholderBlank(pokemon_name) ==
    [kind |-> "placeholder", text |-> <<"No sprite">>]

\* lines 261-265
Placeholder(pokemon_name) ==
    [kind |-> "placeholder", text |-> <<"No sprite for\n">> \o pokemon_name]

\* the outcome of a get_pokemon_sprite call: the image, both directories, the
\* requests issued, the stages that failed and the sprite_url chosen; hit tells
\* that line 149 returned
SpriteOutcome(image, json, png, requests, failed, sprite_url) ==
    [ value |-> image, json |-> json, png |-> png, requests |-> requests,
      failed |-> failed, sprite_url |-> sprite_url, hit |-> FALSE ]

SpriteHit(image, json, png) ==
    [ value |-> image, json |-> json, png |-> png, requests |-> <<>>,
      failed |-> {}, sprite_url |-> <<>>, hit |-> TRUE ]

\* lines 197-262 given sprite_url
SpriteFromUrl(png, cache_key, pokemon_name, sprite_url, lookups, net, disk) ==
    IF sprite_url = <<>>
    THEN SpriteOutcome(Placeholder(pokemon_name), lookups.files, png,
                       lookups.requests, lookups.failed, <<>>)
    ELSE IF net.image = "download fails"
    THEN SpriteOutcome(Placeholder(pokemon_name), lookups.files, png,
                       Append(lookups.requests, sprite_url[1]),
                       lookups.failed \cup {"download"}, sprite_url)
    ELSE IF net.image = "decoding fails"
    THEN SpriteOutcome(Placeholder(pokemon_name), lookups.files, png,
                       Append(lookups.requests, sprite_url[1]),
                       lookups.failed \cup {"decode"}, sprite_url)
    ELSE SpriteOutcome(ProcessedSprite(sprite_url[1]), lookups.files,
                       save_cached(png, cache_key,
                                   ProcessedSprite(sprite_url[1]), disk),
                       Append(lookups.requests, sprite_url[1]),
                       lookups.failed, sprite_url)

\* the two lookups of lines 153-154 taken together
BothLookups(form, species) ==
    [ form_data |-> form.value, data |-> species.value,
      files |-> species.files, requests |-> form.requests \o species.requests,
      failed |-> form.failed \cup species.failed ]

SpriteFromLookups(png, cache_key, pokemon_name, sprite_variant, is_first_pokemon, lookups, net, disk) ==
    SpriteFromUrl(png, cache_key, pokemon_name,
                  SpriteUrl(is_first_pokemon, sprite_variant,
                            lookups.form_data, lookups.data),
                  lookups, net, disk)

SpriteAfterForm(png, cache_key, pokemon_name, sprite_variant, is_first_pokemon, form, net, disk) ==
    SpriteFromLookups(png, cache_key, pokemon_name, sprite_variant,
        is_first_pokemon,
        BothLookups(form,
            get_pokemon_data(form.files, pokemon_name, net.species, disk)),
        net, disk)

\* the cache key of line 146 without the variant
SpriteKeyPerSide(pokemon_name, sprite_side, sprite_variant) ==
    <<"sprite_">> \o pokemon_name \o <<"_", sprite_side>>

\* line 146: f"sprite_{pokemon_name}_{sprite_side}_{sprite_variant}"
SpriteKey(pokemon_name, sprite_side, sprite_variant) ==
    <<"sprite_">> \o pokemon_name \o <<"_", sprite_side, "_", sprite_variant>>

SpriteNamed(json, png, cache_key, pokemon_name, sprite_variant, is_first_pokemon, net, disk) ==
    IF get_cached(png, cache_key) # <<>>
    THEN SpriteHit(get_cached(png, cache_key)[1], json, png)
    ELSE SpriteAfterForm(png, cache_key, pokemon_name, sprite_variant,
             is_first_pokemon,
             get_pokemon_form_data(json, pokemon_name, net.form, disk),
             net, disk)

\* lines 127-265: get_pokemon_sprite on the two directories; `net` tells which
\* of the form lookup and the species lookup succeed and whether the download
\* or the decoding of the image fails, `disk` what a cache write does
get_pokemon_sprite_call(json, png, pokemon_name, sprite_variant, is_first_pokemon, net, disk) ==
    SpriteNamed(json, png,
        SpriteKey(NormalizeName(pokemon_name),
                  IF is_first_pokemon THEN "back" ELSE "front", sprite_variant),
        NormalizeName(pokemon_name), sprite_variant, is_first_pokemon, net,
        disk)

(***************************************************************************)
(* Completing a record: app/agents/visualizer.py, lines 46-102.  A dict is *)
(* a function from its keys; an empty dict and an empty list are <<>>.     *)
(***************************************************************************)
\* not d.get(k) is false: the key is there and its value is not empty
DictTruthy(dict, key) == key \in DOMAIN dict /\ dict[key] # <<>>

\* d[k] = v
DictSet(dict, key, value) == (key :> value) @@ dict

\* lines 69-81: the API's stat names turned into the record's
StatKey(stat_name) ==
    CASE stat_name = "hp" -> <<"hp">>
      [] stat_name = "attack" -> <<"attack">>
      [] stat_name = "defense" -> <<"defense">>
      [] stat_name = "special-attack" -> <<"special_attack">>
      [] stat_name = "special-defense" -> <<"special_defense">>
      [] stat_name = "speed" -> <<"speed">>
      [] OTHER -> <<>>

\* lines 66-81: the loop over api_data["stats"], later entries overwriting
RECURSIVE StatsFromApi(_)
StatsFromApi(api_stats) ==
    IF api_stats = <<>> THEN <<>>
    ELSE IF StatKey(Head(api_stats).stat.name) = <<>>
    THEN StatsFromApi(Tail(api_stats))
    ELSE StatsFromApi(Tail(api_stats))
         @@ (StatKey(Head(api_stats).stat.name)[1] :> Head(api_stats).base_stat)

\* line 87
TypesFromApi(api_types) == [k \in DOMAIN api_types |-> api_types[k].type.name]

\* line 61
NeedsLookup(record) ==
    ~DictTruthy(record, "base_stats") \/ ~DictTruthy(record, "types")

\* lines 65-83
WithApiStats(record, api_data) ==
    IF ~DictTruthy(record, "base_stats") /\ "stats" \in DOMAIN api_data
    THEN DictSet(record, "base_stats", StatsFromApi(api_data.stats))
    ELSE record

\* lines 86-88
WithApiTypes(record, api_data) ==
    IF ~DictTruthy(record, "types") /\ "types" \in DOMAIN api_data
    THEN DictSet(record, "types", TypesFromApi(api_data.types))
    ELSE record

\* lines 91-94
DefaultStats ==
    [ hp |-> 50, attack |-> 50, defense |-> 50, special_attack |-> 50,
      special_defense |-> 50, speed |-> 50 ]

\* lines 90-95: default stats when the key base_stats is absent
WithDefaultStats(record) ==
    IF "base_stats" \notin DOMAIN record
    THEN DictSet(record, "base_stats", DefaultStats)
    ELSE record

\* lines 97-99: the default type when types is absent or empty
WithDefaultTypes(record) ==
    IF "types" \notin DOMAIN record \/ record["types"] = <<>>
    THEN DictSet(record, "types", <<"normal">>)
    ELSE record

\* lines 61-101 once api_data is there
CompletedFrom(record, api_data) ==
    WithDefaultTypes(WithDefaultStats(
        WithApiTypes(WithApiStats(record, api_data), api_data)))

(***************************************************************************)
(* Species lookup of the agents: app/utils/pokemon_utils.py, lines 39-81,  *)
(* and app/agents/researcher.py, lines 15-28.  A call either returns a     *)
(* value or raises: [value |-> <<v>>, raised |-> <<>>] or the reverse.     *)
(***************************************************************************)
Returns(value) == [value |-> <<value>>, raised |-> <<>>]

Raises(type, message) ==
    [value |-> <<>>, raised |-> <<[type |-> type, message |-> message]>>]

\* str.strip(): white space removed at both ends
RECURSIVE LStrip(_)
LStrip(str) ==
    IF str # <<>> /\ Head(str) = " " THEN LStrip(Tail(str)) ELSE str

RECURSIVE RStrip(_)
RStrip(str) ==
    IF str # <<>> /\ str[Len(str)] = " "
    THEN RStrip(SubSeq(str, 1, Len(str) - 1))
    ELSE str

Strip(str) == RStrip(LStrip(str))

\* requests.get(f"https://pokeapi.co/api/v2/pokemon/{clean_name}") under a
\* condition of the network and of the API
RequestsGet(clean_name, condition) ==
    CASE condition = "connection error" ->
           Raises("ConnectionError", <<"Max retries exceeded">>)
      [] condition = "timeout" ->
           Raises("Timeout", <<"Read timed out">>)
      [] condition = "status 500" ->
           Returns([status_code |-> 500, json |-> <<>>])
      [] condition = "status 404" ->
           Returns([status_code |-> 404, json |-> <<>>])
      [] condition = "truncated" /\ SpeciesRecord(clean_name) # <<>> ->
           Returns([ status_code |-> 200,
                     json |-> << [ SpeciesRecord(clean_name)[1] EXCEPT
                                     !.stats = SubSeq(@, 1, 5) ] >> ])
      [] clean_name = <<>> ->
           Returns([ status_code |-> 200,
                     json |-> << [count |-> 2, results |-> <<>>] >> ])
      [] SpeciesRecord(clean_name) # <<>> ->
           Returns([status_code |-> 200, json |-> SpeciesRecord(clean_name)])
      [] OTHER ->
           Returns([status_code |-> 404, json |-> <<>>])

\* lines 62-73: pokemon_info, or the KeyError / IndexError of a missing part
PokemonInfo(data) ==
    IF "name" \notin DOMAIN data THEN Raises("KeyError", <<"'name'">>)
    ELSE IF "stats" \notin DOMAIN data THEN Raises("KeyError", <<"'stats'">>)
    ELSE IF Len(data.stats) < 6
    THEN Raises("IndexError", <<"list index out of range">>)
    ELSE IF "types" \notin DOMAIN data THEN Raises("KeyError", <<"'types'">>)
    ELSE Returns([ name |-> data.name,
                   base_stats |->
                     [ hp              |-> data.stats[1].base_stat,
                       attack          |-> data.stats[2].base_stat,
                       defense         |-> data.stats[3].base_stat,
                       special_attack  |-> data.stats[4].base_stat,
                       special_defense |-> data.stats[5].base_stat,
                       speed           |-> data.stats[6].base_stat ],
                   types |-> TypesFromApi(data.types) ])

\* lines 78-81 (the accented letter of the source's text is written plain)
NotFound(pokemon_name) ==
    [error |-> <<"Pokemon '">> \o pokemon_name \o <<"' not found.">>]

\* lines 49-81 once requests.get has answered or raised
FetchedFrom(pokemon_name, got) ==
    IF got.raised # <<>> THEN got
    ELSE IF got.value[1].status_code = 200
    THEN PokemonInfo(got.value[1].json[1])
    ELSE Returns(NotFound(pokemon_name))

\* lines 39-81
fetch_pokemon_data(pokemon_name, condition) ==
    FetchedFrom(pokemon_name, RequestsGet(Strip(Lower(pokemon_name)), condition))

\* the lookup with nothing caught
fetch_pokemon_info_uncaught(pokemon_name, condition) ==
    fetch_pokemon_data(Lower(pokemon_name), condition)

\* the try/except of lines 25-28 around a call
ErrorOnException(called) ==
    IF called.raised # <<>>
    THEN Returns([error |-> called.raised[1].message])
    ELSE called

\* agents/researcher.py, lines 15-28
fetch_pokemon_info(pokemon_name, condition) ==
    ErrorOnException(fetch_pokemon_data(Lower(pokemon_name), condition))

(***************************************************************************)
(* GET /battle: app/main.py, lines 70-99.  The values process_question     *)
(* hands back are Python values of any type, written with their type.      *)
(***************************************************************************)
PyNone == [type |-> "NoneType"]

PyStr(str) == [type |-> "str", value |-> str]

PyInt(n) == [type |-> "int", value |-> n]

PyList(list) == [type |-> "list", value |-> list]

PyDict(dict) == [type |-> "dict", value |-> dict]

\* bool(value)
Truthy(value) ==
    CASE value.type = "NoneType" -> FALSE
      [] value.type = "int" -> value.value # 0
      [] OTHER -> value.value # <<>>

\* dict.pop(key, None): the dictionary left
DictPop(dict, key) == [k \in DOMAIN dict \ {key} |-> dict[k]]

\* line 83
BattleQuestion(pokemon1, pokemon2) ==
    <<"Who would win in a battle between ">> \o pokemon1 \o <<" and ">>
       \o pokemon2 \o <<"?">>

\* line 93: winner.capitalize(), then the validation of BattleResponse's two
\* str fields
BattleResponse(winner, reasoning) ==
    IF winner.type # "str"
    THEN Raises("AttributeError", <<"object has no attribute 'capitalize'">>)
    ELSE IF reasoning.type # "str"
    THEN Raises("ValidationError", <<"1 validation error for BattleResponse">>)
    ELSE Returns([ winner |-> Capitalize(winner.value),
                   reasoning |-> reasoning.value ])

\* lines 88-93
BattleFromFields(winner, reasoning) ==
    IF ~Truthy(winner) \/ ~Truthy(reasoning)
    THEN Raises("ValueError", <<"Missing winner or reasoning data">>)
    ELSE BattleResponse(winner, reasoning)

\* lines 86-93, on what process_question returned
BattleFromResponse(response) ==
    IF response.type # "dict"
    THEN Raises("AttributeError", <<"object has no attribute 'pop'">>)
    ELSE BattleFromFields(
           DictGet(DictPop(response.value, "answer"), "winner",
                   PyStr(<<"U", "n", "k", "n", "o", "w", "n">>)),
           DictGet(DictPop(response.value, "answer"), "reasoning",
                   PyStr(<<"No reasoning available.">>)))

\* lines 82-93: the body of the try
BattleTry(outcome) ==
    IF outcome.raised # <<>> THEN outcome ELSE BattleFromResponse(outcome.value[1])

\* what FastAPI sends for a returned model, for an HTTPException, and for any
\* other exception that leaves the handler
Sent(handled) ==
    IF handled.raised = <<>>
    THEN [status_code |-> 200, body |-> handled.value[1]]
    ELSE IF handled.raised[1].type = "HTTPException"
    THEN [ status_code |-> handled.raised[1].status_code,
           body |-> [detail |-> handled.raised[1].message] ]
    ELSE [status_code |-> 500, body |-> [detail |-> <<"Internal Server Error">>]]

\* the handler without its except clause
battle_uncaught(outcome) == Sent(BattleTry(outcome))

\* lines 95-98: except Exception as e: raise HTTPException(500, ...)
HTTPExceptionOn(tried) ==
    IF tried.raised = <<>> THEN tried
    ELSE [ value |-> <<>>,
           raised |-> << [ type |-> "HTTPException", status_code |-> 500,
                           message |-> <<"Error processing battle: ">>
                                          \o tried.raised[1].message ] >> ]

\* lines 70-98
battle(outcome) == Sent(HTTPExceptionOn(BattleTry(outcome)))

(***************************************************************************)
(* check_json: app/agents/supervisor.py, lines 13-28.  A text is a         *)
(* sequence of tokens: the opening fence (three backticks and json), the   *)
(* closing fence (three backticks), the brackets, the member "a": 1, a     *)
(* blank and a word of prose.                                              *)
(***************************************************************************)
OpeningFence == "<fence>json"

ClosingFence == "<fence>"

JsonMember == "\"a\": 1"

\* substring in text
Contains(text, token) == \E k \in DOMAIN text : text[k] = token

\* text.split(opening fence)[1]: what follows the first opening fence, up to the
\* next one
RECURSIVE AfterOpeningFence(_)
AfterOpeningFence(text) ==
    IF Head(text) = OpeningFence THEN Tail(text) ELSE AfterOpeningFence(Tail(text))

\* .split(three backticks)[0]: what precedes the first three backticks, which the opening
\* fence begins with as well
RECURSIVE BeforeFence(_)
BeforeFence(text) ==
    IF text = <<>> \/ Head(text) \in {OpeningFence, ClosingFence} THEN <<>>
    ELSE <<Head(text)>> \o BeforeFence(Tail(text))

\* the white space json.loads skips between tokens
RECURSIVE SkipBlanks(_)
SkipBlanks(text) ==
    IF text = <<>> THEN <<>>
    ELSE IF Head(text) = " " THEN SkipBlanks(Tail(text))
    ELSE <<Head(text)>> \o SkipBlanks(Tail(text))

Parsed(value, rest) == [ok |-> TRUE, value |-> value, rest |-> rest]

NotParsed == [ok |-> FALSE]

\* the end of an array of one element
CloseArray(element) ==
    IF element.ok /\ element.rest # <<>> /\ Head(element.rest) = "]"
    THEN Parsed(PyList(<<element.value>>), Tail(element.rest))
    ELSE NotParsed

\* the JSON value a text begins with: an object of no or one member, or an
\* array of no or one value
RECURSIVE ParseValue(_)
ParseValue(text) ==
    IF Len(text) < 2 THEN NotParsed
    ELSE IF text[1] = "{" /\ text[2] = "}"
    THEN Parsed(PyDict([k \in {} |-> PyNone]), SubSeq(text, 3, Len(text)))
    ELSE IF text[1] = "{" /\ text[2] = JsonMember /\ Len(text) >= 3 /\ text[3] = "}"
    THEN Parsed(PyDict([k \in {"a"} |-> PyInt(1)]), SubSeq(text, 4, Len(text)))
    ELSE IF text[1] = "[" /\ text[2] = "]"
    THEN Parsed(PyList(<<>>), SubSeq(text, 3, Len(text)))
    ELSE IF text[1] = "["
    THEN CloseArray(ParseValue(Tail(text)))
    ELSE NotParsed

\* json.loads(text): <<value>>, or <<>> for a JSONDecodeError
JsonValueOf(parsed) == IF parsed.ok /\ parsed.rest = <<>> THEN <<parsed.value>> ELSE <<>>

json_loads(text) == JsonValueOf(ParseValue(SkipBlanks(text)))

\* lines 14-18: the fenced branch
FencedJson(loaded) ==
    IF loaded = <<>>
    THEN Raises("JSONDecodeError", <<"Expecting value">>)
    ELSE Returns(loaded[1])

\* lines 19-24: the branch of a text with a brace
BracedJson(text, loaded) ==
    IF loaded = <<>> THEN Returns(PyStr(text)) ELSE Returns(loaded[1])

\* lines 13-28
check_json(text) ==
    IF Contains(text, OpeningFence)
    THEN FencedJson(json_loads(Strip(BeforeFence(AfterOpeningFence(text)))))
    ELSE IF Contains(text, "{")
    THEN BracedJson(text, json_loads(text))
    ELSE Returns(PyDict([k \in {} |-> PyNone]))

(***************************************************************************)
(* The cache file as concurrent calls see it: visualization_utils.py,      *)
(* lines 17-49.  json.dump writes a record as a run of chunks, each call   *)
(* at its own file offset; open(..., "w") empties the file.                *)
(***************************************************************************)
ChunksPerDump == 2

\* json.dump(data, f): the chunks written, in order
JsonChunks(data) == [k \in 1..ChunksPerDump |-> [of |-> <<data>>, part |-> k]]

\* the bytes a file has where nothing was written below a later write
HoleChunk == [of |-> <<>>, part |-> 0]

\* f.write of one chunk at position pos (from 1) of a file
WriteAt(content, pos, chunk) ==
    [ k \in 1..Max2(Len(content), pos) |->
        IF k = pos THEN chunk
        ELSE IF k <= Len(content) THEN content[k]
        ELSE HoleChunk ]

\* the text is the whole of one record's chunks
CompleteText(content) ==
    /\ Len(content) = ChunksPerDump
    /\ \A k \in 1..ChunksPerDump :
          content[k].part = k /\ content[k].of = content[1].of

\* a json.load that raises on nothing: what it makes of a text cut short is
\* the part it could read
json_load_unchecked(content) ==
    IF CompleteText(content) THEN content[1].of ELSE <<[cut_short |-> content]>>

\* json.load(f): <<data>> for the complete text of a record, <<>> when it
\* raises (an empty file, a text cut short, a hole)
json_load(content) == IF CompleteText(content) THEN content[1].of ELSE <<>>

\* lines 17-34: None (<<>>) when the file is missing or json.load raises
get_cached_data(files, cache_key) ==
    IF cache_key \in DOMAIN files THEN json_load(files[cache_key]) ELSE <<>>

\* line 93
CacheKey(pokemon_name) == <<"pokemon_">> \o pokemon_name

(***************************************************************************)
(* GET /battle/visualize: app/main.py, lines 102-177                       *)
(***************************************************************************)
\* agents/visualizer.py, lines 46-101: ensure_complete_pokemon_data on a
\* directory of cache files; it returns the record and leaves the files
ensure_complete_pokemon_data(record, files, reachable, disk) ==
    IF ~DictTruthy(record, "name")
    THEN [ call |-> Raises("ValueError", <<"Pokemon data must include a name">>),
           files |-> files ]
    ELSE IF NeedsLookup(record)
    THEN [ call |-> Returns(CompletedFrom(record,
                      get_pokemon_data(files, record["name"], reachable,
                                       disk).value)),
           files |-> get_pokemon_data(files, record["name"], reachable,
                                      disk).files ]
    ELSE [ call |-> Returns(WithDefaultTypes(WithDefaultStats(record))),
           files |-> files ]

\* line 127: "visualization_path" not in visualization_response
LacksPath(outcome) ==
    /\ outcome.raised = <<>>
    /\ "visualization_path" \notin DOMAIN outcome.value[1]

\* lines 174-177: except Exception, HTTPException(500, ...)
VisualizationError(message) ==
    [ status_code |-> 500,
      body |-> [detail |-> <<"Error generating battle visualization: ">>
                              \o message] ]

\* lines 161-169: the response built from visualization_response
VisualizationAnswer(request, visualization_response) ==
    [ status_code |-> 200,
      body |->
        [ visualization_path |-> visualization_response["visualization_path"],
          pokemon1 |-> Capitalize(request.pokemon1),
          pokemon2 |-> Capitalize(request.pokemon2),
          winner |-> Capitalize(DictGet(visualization_response, "winner",
                                        <<"U", "n", "k", "n", "o", "w", "n">>)),
          shiny_used |-> request.use_shiny
                           \/ DictGet(visualization_response, "shiny_used",
                                      FALSE) ] ]

\* lines 155-159: the visualization_response of the fallback
FallbackResponse(gif_path) == [visualization_path |-> gif_path]

(***************************************************************************)
(* create_health_bar: visualization_utils.py, lines 300-331.  The bar is   *)
(* what was drawn on it: the outline and, if any, the filled rectangle as  *)
(* its colour, its columns and its rows.                                   *)
(***************************************************************************)
RECURSIVE BToInt(_)
\* the integer a bignum stands for
BToInt(a) == IF a = <<>> THEN 0 ELSE Head(a) + Base * BToInt(Tail(a))

\* int(x) for a float x: truncation toward zero
FToInt(a) ==
    LET magnitude == IF a.m = <<>> THEN 0
                     ELSE IF a.e >= 0 THEN BToInt(BShl(a.m, a.e))
                     ELSE BToInt(BShr(a.m, 0 - a.e))
    IN  IF a.s = 1 THEN 0 - magnitude ELSE magnitude

Green == <<0, 255, 0>>

Yellow == <<255, 255, 0>>

Red == <<255, 0, 0>>

\* lines 319-324
BarColor(health_percentage) ==
    IF FGt(health_percentage, F0_5) THEN Green
    ELSE IF FGt(health_percentage, F0_2) THEN Yellow
    ELSE Red

\* line 318
HealthWidth(health_percentage, width) ==
    Max2(1, FToInt(FMul(FInt(width), health_percentage)))

\* ImageDraw.rectangle([(x0, y0), (x1, y1)], fill=color) on an image of the
\* given size.  A build that checks the order of the corners raises
\* ValueError for x1 < x0 or y1 < y0; a build that does not paints the
\* rectangle between the two corners, whatever their order.
DrawRectangle(size, x0, y0, x1, y1, color, checks_order) ==
    IF checks_order /\ x1 < x0
    THEN Raises("ValueError", <<"x1 must be greater than or equal to x0">>)
    ELSE IF checks_order /\ y1 < y0
    THEN Raises("ValueError", <<"y1 must be greater than or equal to y0">>)
    ELSE Returns([ color |-> color,
                   columns |-> { x \in 0 .. size[1] - 1 :
                                   Min2(x0, x1) <= x /\ x <= Max2(x0, x1) },
                   rows |-> { y \in 0 .. size[2] - 1 :
                                Min2(y0, y1) <= y /\ y <= Max2(y0, y1) } ])

\* lines 312-331
create_health_bar(health_percentage, width, height, checks_order) ==
    LET fill == DrawRectangle(<<width, height>>, 1, 1,
                              HealthWidth(health_percentage, width) - 1,
                              height - 2, BarColor(health_percentage),
                              checks_order)
    IN  IF ~FGt(health_percentage, FZero)
        THEN Returns([size |-> <<width, height>>, fill |-> <<>>])
        ELSE IF fill.raised # <<>> THEN fill
        ELSE Returns([size |-> <<width, height>>, fill |-> fill.value])

(***************************************************************************)
(* Background keying of a fetched sprite: visualization_utils.py, lines    *)
(* 206-247.  An image is its size <<width, height>> and its getdata(), the *)
(* pixels <<r, g, b, a>> row by row.                                       *)
(***************************************************************************)
F0_7 == FLit(7, 10)

\* line 217: any(item[3] < 255 for item in data)
HasTransparency(data) == \E k \in 1 .. Len(data) : data[k][4] < 255

\* lines 235 and 241: p[0] < 10 and p[1] < 10 and p[2] < 10
VeryBlack(p) == p[1] < 10 /\ p[2] < 10 /\ p[3] < 10

\* lines 226-232: top and bottom of each column, then left and right of each
\* row, in the order the loops append them
EdgePixels(size, data) ==
    [ k \in 1 .. 2 * size[1] + 2 * size[2] |->
        IF k <= 2 * size[1]
        THEN IF k % 2 = 1 THEN data[(k - 1) \div 2 + 1]
             ELSE data[(size[2] - 1) * size[1] + (k - 1) \div 2 + 1]
        ELSE IF k % 2 = 1
             THEN data[((k - 2 * size[1] - 1) \div 2) * size[1] + 1]
             ELSE data[((k - 2 * size[1] - 1) \div 2) * size[1] + size[1]] ]

\* line 235
BgColorCount(edge_pixels) ==
    Cardinality({ k \in 1 .. Len(edge_pixels) : VeryBlack(edge_pixels[k]) })

MostlyBackgroundOrEqual(bg_color_count, samples) ==
    ~FLt(FInt(bg_color_count), FMul(FInt(samples), F0_7))

\* line 238: bg_color_count > len(edge_pixels) * 0.7
MostlyBackground(bg_color_count, samples) ==
    FGt(FInt(bg_color_count), FMul(FInt(samples), F0_7))

\* lines 239-246
NewData(data) ==
    [ k \in 1 .. Len(data) |->
        IF VeryBlack(data[k]) THEN <<0, 0, 0, 0>> ELSE data[k] ]

\* lines 213-247: the image after the keying, and whether putdata ran
KeyBackground(size, data) ==
    IF ~HasTransparency(data)
       /\ MostlyBackground(BgColorCount(EdgePixels(size, data)),
                           Len(EdgePixels(size, data)))
    THEN [size |-> size, data |-> NewData(data), putdata |-> TRUE]
    ELSE [size |-> size, data |-> data, putdata |-> FALSE]

(***************************************************************************)
(* The while loop of a battle tick, one pass at a time:                    *)
(* visualization_utils.py, lines 609-627                                   *)
(***************************************************************************)
\* lines 614-615: the condition of the loop
LoopCondition(messages, message, p1_health, p2_health, p1_cap, p2_cap) ==
    /\ ActorFainted(message, p1_health, p2_health, p1_cap, p2_cap)
    /\ Len(messages) > 1

\* line 617
IndexAfter(messages, message_index) == (message_index + 1) % Len(messages)

BackAtStartNever(message_index, start) == FALSE

\* line 621: message_index == i % len(messages)
BackAtStart(message_index, start) == message_index = start

\* lines 622-627: the announcement of the break, <<>> when neither branch is
\* taken
FaintAnnouncement(p1_health, p2_health, p1_cap, p2_cap) ==
    IF FLe(p1_health, FZero) THEN <<p1_cap \o <<" has fainted!">>>>
    ELSE IF FLe(p2_health, FZero) THEN <<p2_cap \o <<" has fainted!">>>>
    ELSE <<>>

(***************************************************************************)
(* Bounds and input sets                                                   *)
(***************************************************************************)
\* the most types a list handed to calculate_type_effectiveness holds
MaxTypes == 2

\* hp takes the values 10, 20, ... up to 10 * MaxHpLevel
MaxHpLevel == 2

\* speed takes the values 50, 90, ... up to 50 + 40 * MaxSpeedLevel
MaxSpeedLevel == 1

\* random.shuffle outcomes considered: the pool rotated by 0..MaxRotation
MaxRotation == 1

\* random.sample outcomes considered: see DamageChoices
MaxSampleShift == 1

\* int(time.time()) takes the values 0..MaxClock
MaxClock == 1

TypePool == {"normal", "water", "fire", "electric", "ground", "flying", "grass"}

RECURSIVE SeqsUpTo(_, _)
SeqsUpTo(S, n) ==
    IF n = 0 THEN {<<>>}
    ELSE LET shorter == SeqsUpTo(S, n - 1)
         IN  shorter \cup {Append(q, x) : q \in shorter, x \in S}

TypeLists == SeqsUpTo(TypePool, MaxTypes) \ {<<>>}

Stats(hp, attack, defense, special_attack, special_defense, speed) ==
    [ hp |-> hp, attack |-> attack, defense |-> defense,
      special_attack |-> special_attack, special_defense |-> special_defense,
      speed |-> speed ]

\* the records of tests/conftest.py
Pikachu ==
    [ name |-> <<"p", "i", "k", "a", "c", "h", "u">>,
      base_stats |-> Stats(35, 55, 40, 50, 50, 90),
      types |-> <<"electric">> ]

Charizard ==
    [ name |-> <<"c", "h", "a", "r", "i", "z", "a", "r", "d">>,
      base_stats |-> Stats(78, 84, 78, 109, 85, 100),
      types |-> <<"fire", "flying">> ]

HpVals == {10 * k : k \in 1..MaxHpLevel}

SpeedVals == {50 + 40 * k : k \in 0..MaxSpeedLevel}

\* small records whose effective bulks and turns to win tie often
StatRoster ==
    { Stats(hp, attack, def, 10, def, speed) :
        hp \in HpVals, attack \in {0, 20}, def \in {10, 20}, speed \in SpeedVals }

\* two records whose bulks 3 * (10 / 100) and 10 * (3 / 100) differ in the last
\* bit as floats
NearTieA ==
    [ name |-> <<"a", "b">>, base_stats |-> Stats(3, 20, 10, 10, 10, 50),
      types |-> <<"water">> ]

NearTieB ==
    [ name |-> <<"P", "c">>, base_stats |-> Stats(10, 20, 3, 10, 3, 50),
      types |-> <<"water">> ]

\* records at the edges: stats of 0, a type name that is in neither table, and
\* pairs with an immunity (effectiveness 0.0)
EdgeStats ==
    { Stats(hp, attack, def, special_attack, def, 50) :
        hp \in {0, 10}, attack \in {0, 20}, def \in {0, 10},
        special_attack \in {0, 30} }

EdgeTypeLists ==
    {<<"electric">>, <<"ground">>, <<"shadow">>, <<"ground", "shadow">>,
     <<"ghost", "flying">>}

EdgePairs ==
    { << [name |-> <<"a", "b">>, base_stats |-> s1, types |-> t1],
         [name |-> <<"P", "c">>, base_stats |-> s2, types |-> t2] >> :
       s1 \in EdgeStats, s2 \in EdgeStats,
       t1 \in EdgeTypeLists, t2 \in EdgeTypeLists }

BattleTypeLists == {<<"electric">>, <<"ground">>, <<"water", "flying">>}

BattlePairs ==
    {<<Pikachu, Charizard>>, <<Charizard, Pikachu>>,
     <<NearTieA, NearTieB>>, <<NearTieB, NearTieA>>}
    \cup { << [name |-> <<"a", "b">>, base_stats |-> s1, types |-> t1],
              [name |-> <<"P", "c">>, base_stats |-> s2, types |-> t2] >> :
            s1 \in StatRoster, s2 \in StatRoster,
            t1 \in BattleTypeLists, t2 \in BattleTypeLists }

AnimAb ==
    [ name |-> <<"a", "b">>, base_stats |-> Stats(35, 55, 40, 50, 50, 90),
      types |-> <<"electric">> ]

AnimAbc ==
    [ name |-> <<"a", "b", "c">>, base_stats |-> Stats(78, 84, 78, 109, 85, 100),
      types |-> <<"fire", "flying">> ]

AnimPc ==
    [ name |-> <<"P", "c">>, base_stats |-> Stats(50, 50, 50, 50, 50, 50),
      types |-> <<"ground">> ]

\* one-letter names that open the fixed sentences "Both ..." and "The ..."
AnimB ==
    [ name |-> <<"b">>, base_stats |-> Stats(50, 50, 50, 50, 50, 50),
      types |-> <<"normal">> ]

AnimT ==
    [ name |-> <<"t">>, base_stats |-> Stats(50, 50, 50, 50, 50, 50),
      types |-> <<"normal">> ]

\* the calls considered: the two records, use_shiny and the environment's TEMP_DIR
AnimationScenarios ==
    { <<AnimAb, AnimAbc, FALSE, <<>> >>,
      <<AnimB, AnimT, FALSE, <<"./tmp">> >>,
      <<AnimAb, AnimAb, TRUE, <<"./tmp">> >>,
      <<AnimPc, AnimAb, FALSE, <<"./tmp">> >>,
      <<AnimAbc, AnimPc, TRUE, <<>> >> }

\* battle_result: None is <<>>, a dict d is <<d>>
BattleResults(p1, p2) ==
    { <<>>,
      << [winner |-> p1.name, reasoning |-> [text |-> "short", len |-> 70]] >>,
      << [winner |-> p2.name, reasoning |-> [text |-> "long", len |-> 130]] >>,
      << [description |-> "no verdict"] >> }

\* sorted(random.sample(range(num_frames), 4)): four distinct frames in order
DamageChoices(num_frames) ==
    { <<a, a + 1, a + 3, num_frames - 1 - a>> : a \in 0..MaxSampleShift }

\* the ticks of the clock in one second
TicksPerSecond == 2

\* the last tick of the clock
MaxTime == 4

\* the processes that render into the same TEMP_DIR
Renderers == {1, 2}

\* the most lookups made on one cache directory
MaxCalls == 2

\* the names looked up, as the caller spells them
CacheNames == { <<"A", ".", "b">>, <<"P", "c">> }

\* the variants asked for, of default, female, shiny and shiny_female
SpriteVariants == {"default", "shiny"}

\* which of a sprite call's two lookups succeed, and how far the image gets
NetOutcomes ==
    [ form : BOOLEAN, species : BOOLEAN,
      image : {"decoded", "download fails", "decoding fails"} ]

\* what a cache write does
DiskOutcomes == {"written", "refused", "torn"}

\* the records handed to ensure_complete_pokemon_data: the name (or none),
\* base_stats absent, empty, partial or whole, types absent, empty or given
NameShapes ==
    { <<>> } \cup
    { [name |-> n] : n \in {<<>>, <<"A", ".", "b">>, <<"P", "c">>, <<"m">>} }

StatShapes ==
    { <<>> } \cup
    { [base_stats |-> b] :
        b \in {<<>>, [hp |-> 35], Stats(35, 55, 40, 50, 50, 90)} }

TypeShapes == { <<>> } \cup { [types |-> t] : t \in {<<>>, <<"ground">>} }

IncompleteRecords ==
    { n @@ b @@ t : n \in NameShapes, b \in StatShapes, t \in TypeShapes }

\* the names handed to the species lookup, and the conditions it runs under
FetchNames ==
    { <<"A", "b">>, <<"a", "b">>, <<" ", "A", "b", " ">>, <<"P", "c">>, <<"m">>,
      <<>> }

ApiConditions ==
    {"up", "truncated", "status 404", "status 500", "connection error",
     "timeout"}

\* what process_question can hand to GET /battle: the dictionary parsed from
\* the model's answer, with or without each key, or an exception
WinnerValues ==
    { PyStr(<<"a", "b">>), PyStr(<<"P", "c">>), PyStr(<<"m", "B">>), PyStr(<<>>),
      PyNone, PyInt(1) }

ReasoningValues ==
    { PyStr(<<"Pc has the type advantage.">>), PyStr(<<>>),
      PyList(<<"Pc has the type advantage.">>) }

Optional(values) == {<<>>} \cup { <<v>> : v \in values }

BattleDict(winner, reasoning, answer) ==
    [ k \in (IF winner # <<>> THEN {"winner"} ELSE {})
              \cup (IF reasoning # <<>> THEN {"reasoning"} ELSE {})
              \cup (IF answer THEN {"answer"} ELSE {}) |->
        CASE k = "winner" -> winner[1]
          [] k = "reasoning" -> reasoning[1]
          [] OTHER -> PyStr(<<"Pc would win.">>) ]

ProcessQuestionOutcomes ==
    { Raises("Exception", <<"Test error">>),
      Raises("KeyError", <<"'messages'">>),
      Returns(PyNone) }
    \cup { Returns(PyDict(BattleDict(w, r, a))) :
             w \in Optional(WinnerValues), r \in Optional(ReasoningValues),
             a \in BOOLEAN }

BattleRequests ==
    { [pokemon1 |-> <<"a", "b">>, pokemon2 |-> <<"P", "c">>],
      [pokemon1 |-> <<"P", "c">>, pokemon2 |-> <<"m">>] }

\* the texts a language model can answer with, up to a length
MaxTextLen == 4

TextTokens == {OpeningFence, ClosingFence, "{", JsonMember, "}", "[", "]", " ", "x"}

ModelTexts == UNION { [1..n -> TextTokens] : n \in 0..MaxTextLen }

\* the concurrent calls of get_pokemon_data and the names they are given
Callers == {1, 2}

RaceNames == { <<"A", "b">>, <<"P", "c">> }

\* the requests to GET /battle/visualize and what process_question hands back
VisualizeRequests ==
    { [pokemon1 |-> n1, pokemon2 |-> n2, use_shiny |-> shiny] :
        n1 \in {<<"a", "b">>, <<"m">>}, n2 \in {<<"P", "c">>, <<>>},
        shiny \in BOOLEAN }

VisualizeOutcomes ==
    { Raises("Exception", <<"Test error">>),
      Returns([answer |-> <<"I cannot draw that.">>]),
      Returns([error |-> <<"Invalid JSON response">>]),
      Returns([visualization_path |-> <<"/tmp/battle_ab_vs_pc_7.gif">>]),
      Returns([visualization_path |-> <<"/tmp/battle_ab_vs_pc_7.gif">>,
               winner |-> <<"P", "c">>, shiny_used |-> TRUE]) }

\* the health percentages and the bar widths create_health_bar is called on
BarHealths ==
    { FZero, FLit(1, 1000), FLit(1, 200), FLit(1, 100), FLit(1, 10), F0_2,
      FLit(21, 100), FLit(29, 100), F0_5, FLit(51, 100), F1 }

BarWidths == {1, 2, 3, 100, 160}

BarHeight == 10

\* the images the keying is run on: every 2 x 3 image over four pixel values,
\* every 3 x 3 image over two, and the one-column strips that are black down
\* to some row
Black == <<0, 0, 0, 255>>

AlmostBlack == <<9, 9, 9, 255>>

NotQuiteBlack == <<10, 0, 0, 255>>

Translucent == <<0, 0, 0, 128>>

StripLength == 44

SmallSprites ==
    { [size |-> <<2, 3>>, data |-> d] :
        d \in [1 .. 6 -> {Black, AlmostBlack, NotQuiteBlack, Translucent}] }

SquareSprites ==
    { [size |-> <<3, 3>>, data |-> d] : d \in [1 .. 9 -> {Black, NotQuiteBlack}] }

StripSprites ==
    { [size |-> <<1, StripLength>>,
       data |-> [k \in 1 .. StripLength |->
                   IF k <= black THEN Black ELSE NotQuiteBlack]] :
        black \in 0 .. StripLength }

FetchedSprites == SmallSprites \cup SquareSprites \cup StripSprites

\* the 18 type names: the keys of TYPE_ADVANTAGES
AllTypes == DOMAIN TYPE_ADVANTAGES

\* the lists of one or two of them
OneOrTwoTypes ==
    { <<t>> : t \in AllTypes } \cup { <<t, u>> : t \in AllTypes, u \in AllTypes }

\* The ticks the while loop is entered at.  A message list is any order of
\* messages of the pool's three kinds: one that opens with the first name, one
\* that opens with the second, and the generic "Both Pokemon are battling
\* hard!", which opens with a name only if the name is "b".
MaxMessages == 3

LoopNames ==
    { << <<"a", "b">>, <<"P", "c">> >>, << <<"a", "b">>, <<"a", "b", "c">> >>,
      << <<"b">>, <<"P", "c">> >>, << <<"a", "b">>, <<"a", "b">> >> }

LoopHealths == {FZero, F0_2, F1}

PoolKinds(p1_cap, p2_cap) ==
    { p1_cap \o <<" dodges and prepares to strike!">>,
      p2_cap \o <<" is charging a powerful attack!">>,
      <<"B", "oth Pokemon are battling hard!">> }

LoopCallsOf(names, n) ==
    { [ messages |-> messages, start |-> start, p1_health |-> h1,
        p2_health |-> h2, p1_cap |-> Capitalize(names[1]),
        p2_cap |-> Capitalize(names[2]) ] :
        messages \in [1 .. n -> PoolKinds(Capitalize(names[1]),
                                          Capitalize(names[2]))],
        start \in 0 .. n - 1, h1 \in LoopHealths, h2 \in LoopHealths }

LoopCalls ==
    UNION { LoopCallsOf(names, n) : names \in LoopNames, n \in 2 .. MaxMessages }

(***************************************************************************)
(* State                                                                   *)
(***************************************************************************)
VARIABLES
    pc,               \* where the running call stands
    attacker_types,   \* calculate_type_effectiveness: its arguments
    defender_types,
    effectiveness,    \* and its return value, <<>> before the call returns
    pokemon1,         \* analyze_pokemon_battle: its arguments
    pokemon2,
    verdict,          \* and its locals at the return, <<>> before
    args,             \* generate_battle_animation: its arguments
    TEMP_DIR,         \* os.environ's TEMP_DIR: <<>> when unset
    sprites,          \* pokemon1_sprite, pokemon2_sprite
    loc,              \* the locals set by lines 563-600
    i,                \* the battle loop's index
    battle_frames,
    frames,
    mimsave_calls,    \* the arguments of every imageio.mimsave call
    returned,         \* the returned path, <<>> before
    json_files,       \* CACHE_DIR: the .json files, by cache key
    png_files,        \* CACHE_DIR: the .png files, by cache key
    lookup,           \* the last cache lookup: arguments and outcome
    degraded,         \* the lookups that returned a fallback so far
    ncalls,           \* the lookups made so far
    clock,            \* time.time(), in ticks of a fraction of a second
    shared_temp_dir,  \* the TEMP_DIR the rendering processes share
    renders,          \* each rendering process: its position, its path
    gif_files,        \* TEMP_DIR's files: by path, the process that wrote last
    given,            \* ensure_complete_pokemon_data: the record as it was passed
    pokemon_record,   \* the record, which the function changes in place
    completed,        \* its return value, <<>> before
    fetch_call,       \* the lookup function called and its pokemon_name
    api_condition,    \* how the PokeAPI answers during the call
    api_response,     \* what requests.get gave: a response or an exception
    fetch_result,     \* the value returned, <<>> before or when it raised
    battle_request,   \* GET /battle: its query parameters
    process_question_outcome, \* what process_question returns or raises
    asked_question,   \* the question process_question was called with
    http_response,    \* the response sent, <<>> before
    model_text,       \* check_json: the text it is given
    check_json_result, \* its return value, <<>> before or when it raised
    callers,          \* each concurrent get_pokemon_data call: position, locals
    cache_files,      \* CACHE_DIR: by cache key, the chunks the file holds
    bar_call,         \* create_health_bar: health_percentage, width, height
    rectangle_checks_order, \* whether the installed ImageDraw.rectangle rejects x1 < x0
    health_bar,       \* what create_health_bar returned or raised
    fetched_sprite,   \* the RGBA image get_pokemon_sprite opened: size and getdata()
    keyed_sprite,     \* the image after lines 213-247, and whether putdata ran
    chart_effectiveness, \* what get_type_effectiveness returned for the same two type lists
    swapped_verdict,  \* the locals of analyze_pokemon_battle called with the two records in the other order
    loop_call,        \* a battle tick at its while loop: messages, i % len(messages), the two healths and names
    loop_index,       \* message_index
    loop_message,     \* message
    loop_advances     \* how many times the loop body has advanced message_index

vars ==
    << pc, attacker_types, defender_types, effectiveness, pokemon1, pokemon2,
       verdict, args, TEMP_DIR, sprites, loc, i, battle_frames, frames,
       mimsave_calls, returned, json_files, png_files, lookup, degraded,
       ncalls,
       clock, shared_temp_dir, renders, gif_files,
       given, pokemon_record, completed,
       fetch_call, api_condition, api_response, fetch_result,
       battle_request, process_question_outcome, asked_question, http_response,
       model_text, check_json_result,
       callers, cache_files,
       bar_call, rectangle_checks_order, health_bar,
       fetched_sprite, keyed_sprite,
       chart_effectiveness,
       swapped_verdict,
       loop_call, loop_index, loop_message, loop_advances >>

effVars == <<attacker_types, defender_types, effectiveness>>

battleVars == <<pokemon1, pokemon2, verdict>>

animVars ==
    <<args, TEMP_DIR, sprites, loc, i, battle_frames, frames, mimsave_calls,
      returned>>

cacheVars == <<json_files, png_files, lookup, degraded, ncalls>>

NoEff ==
    /\ attacker_types = <<>>
    /\ defender_types = <<>>
    /\ effectiveness = <<>>

NoBattle ==
    /\ pokemon1 = <<>>
    /\ pokemon2 = <<>>
    /\ verdict = <<>>

NoAnimation ==
    /\ args = <<>>
    /\ TEMP_DIR = <<>>
    /\ sprites = <<>>
    /\ loc = <<>>
    /\ i = 0
    /\ battle_frames = <<>>
    /\ frames = <<>>
    /\ mimsave_calls = <<>>
    /\ returned = <<>>

NoCache ==
    /\ json_files = <<>>
    /\ png_files = <<>>
    /\ lookup = <<>>
    /\ degraded = {}
    /\ ncalls = 0

renderVars == <<clock, shared_temp_dir, renders, gif_files>>

NoRenders ==
    /\ clock = 0
    /\ shared_temp_dir = <<>>
    /\ renders = <<>>
    /\ gif_files = <<>>

completeVars == <<given, pokemon_record, completed>>

NoComplete ==
    /\ given = <<>>
    /\ pokemon_record = <<>>
    /\ completed = <<>>

fetchVars == <<fetch_call, api_condition, api_response, fetch_result>>

NoFetch ==
    /\ fetch_call = <<>>
    /\ api_condition = <<>>
    /\ api_response = <<>>
    /\ fetch_result = <<>>

endpointVars == <<battle_request, process_question_outcome, asked_question, http_response>>

NoEndpoint ==
    /\ battle_request = <<>>
    /\ process_question_outcome = <<>>
    /\ asked_question = <<>>
    /\ http_response = <<>>

supervisorVars == <<model_text, check_json_result>>

NoSupervisor ==
    /\ model_text = <<>>
    /\ check_json_result = <<>>

raceVars == <<callers, cache_files>>

NoRace ==
    /\ callers = <<>>
    /\ cache_files = <<>>

barVars == <<bar_call, rectangle_checks_order, health_bar>>

NoBar ==
    /\ bar_call = <<>>
    /\ rectangle_checks_order = FALSE
    /\ health_bar = <<>>

keyingVars == <<fetched_sprite, keyed_sprite>>

NoKeying ==
    /\ fetched_sprite = <<>>
    /\ keyed_sprite = <<>>

chartVars == <<chart_effectiveness>>

NoChart ==
    /\ chart_effectiveness = <<>>

swapVars == <<swapped_verdict>>

NoSwap ==
    /\ swapped_verdict = <<>>

loopVars == <<loop_call, loop_index, loop_message, loop_advances>>

NoLoop ==
    /\ loop_call = <<>>
    /\ loop_index = 0
    /\ loop_message = <<>>
    /\ loop_advances = 0

\* the variables outside the evaluator and the compositor, but for some groups
NoServiceBut(groups) ==
    /\ IF "cache" \in groups THEN TRUE ELSE NoCache
    /\ IF "renders" \in groups THEN TRUE ELSE NoRenders
    /\ IF "complete" \in groups THEN TRUE ELSE NoComplete
    /\ IF "fetch" \in groups THEN TRUE ELSE NoFetch
    /\ IF "endpoint" \in groups THEN TRUE ELSE NoEndpoint
    /\ IF "supervisor" \in groups THEN TRUE ELSE NoSupervisor
    /\ IF "race" \in groups THEN TRUE ELSE NoRace
    /\ IF "bar" \in groups THEN TRUE ELSE NoBar
    /\ IF "keying" \in groups THEN TRUE ELSE NoKeying
    /\ IF "chart" \in groups THEN TRUE ELSE NoChart
    /\ IF "swap" \in groups THEN TRUE ELSE NoSwap
    /\ IF "loop" \in groups THEN TRUE ELSE NoLoop

UnchangedServiceBut(groups) ==
    /\ IF "cache" \in groups THEN TRUE ELSE UNCHANGED cacheVars
    /\ IF "renders" \in groups THEN TRUE ELSE UNCHANGED renderVars
    /\ IF "complete" \in groups THEN TRUE ELSE UNCHANGED completeVars
    /\ IF "fetch" \in groups THEN TRUE ELSE UNCHANGED fetchVars
    /\ IF "endpoint" \in groups THEN TRUE ELSE UNCHANGED endpointVars
    /\ IF "supervisor" \in groups THEN TRUE ELSE UNCHANGED supervisorVars
    /\ IF "race" \in groups THEN TRUE ELSE UNCHANGED raceVars
    /\ IF "bar" \in groups THEN TRUE ELSE UNCHANGED barVars
    /\ IF "keying" \in groups THEN TRUE ELSE UNCHANGED keyingVars
    /\ IF "chart" \in groups THEN TRUE ELSE UNCHANGED chartVars
    /\ IF "swap" \in groups THEN TRUE ELSE UNCHANGED swapVars
    /\ IF "loop" \in groups THEN TRUE ELSE UNCHANGED loopVars

(***************************************************************************)
(* calculate_type_effectiveness, called on every pair of type lists        *)
(***************************************************************************)
InitEff ==
    /\ pc = "effectiveness_called"
    /\ attacker_types \in TypeLists
    /\ defender_types \in TypeLists
    /\ effectiveness = <<>>
    /\ NoBattle
    /\ NoAnimation
    /\ NoServiceBut({})

CalculateTypeEffectiveness ==
    /\ pc = "effectiveness_called"
    /\ effectiveness' =
          <<calculate_type_effectiveness(attacker_types, defender_types)>>
    /\ pc' = "effectiveness_returned"
    /\ UNCHANGED <<attacker_types, defender_types, battleVars, animVars>>
    /\ UnchangedServiceBut({})

NextEff == CalculateTypeEffectiveness

SpecEff == InitEff /\ [][NextEff]_vars

(***************************************************************************)
(* analyze_pokemon_battle, called on every pair of records                 *)
(***************************************************************************)
InitBattle ==
    /\ pc = "battle_called"
    /\ \E pair \in BattlePairs :
          /\ pokemon1 = pair[1]
          /\ pokemon2 = pair[2]
    /\ verdict = <<>>
    /\ NoEff
    /\ NoAnimation
    /\ NoServiceBut({})

AnalyzePokemonBattle ==
    /\ pc = "battle_called"
    /\ IF BattleRaised(pokemon1, pokemon2) # <<>>
       THEN /\ verdict' = <<>>
            /\ pc' = "battle_raised"
       ELSE /\ verdict' = <<BattleLocals(pokemon1, pokemon2)>>
            /\ pc' = "battle_returned"
    /\ UNCHANGED <<pokemon1, pokemon2, effVars, animVars>>
    /\ UnchangedServiceBut({})

NextBattle == AnalyzePokemonBattle

SpecBattle == InitBattle /\ [][NextBattle]_vars

\* analyze_pokemon_battle on records at the edges of its domain
InitEdge ==
    /\ pc = "battle_called"
    /\ \E pair \in EdgePairs :
          /\ pokemon1 = pair[1]
          /\ pokemon2 = pair[2]
    /\ verdict = <<>>
    /\ NoEff
    /\ NoAnimation
    /\ NoServiceBut({})

SpecEdge == InitEdge /\ [][NextBattle]_vars

(***************************************************************************)
(* generate_battle_animation                                               *)
(***************************************************************************)
Init ==
    /\ pc = "called"
    /\ \E sc \in AnimationScenarios :
       \E br \in BattleResults(sc[1], sc[2]) :
          /\ args = [ pokemon1_data |-> sc[1], pokemon2_data |-> sc[2],
                      battle_result |-> br, use_shiny |-> sc[3] ]
          /\ TEMP_DIR = sc[4]
    /\ sprites = <<>>
    /\ loc = <<>>
    /\ i = 0
    /\ battle_frames = <<>>
    /\ frames = <<>>
    /\ mimsave_calls = <<>>
    /\ returned = <<>>
    /\ NoEff
    /\ NoBattle
    /\ NoServiceBut({})

\* lines 538-561: the two random draws, the variants, the two sprites
SelectSprites ==
    /\ pc = "called"
    /\ \E use_female1 \in BOOLEAN, use_female2 \in BOOLEAN :
          sprites' =
             << get_pokemon_sprite(args.pokemon1_data.name,
                    SpriteVariant(args.use_shiny, use_female1), TRUE),
                get_pokemon_sprite(args.pokemon2_data.name,
                    SpriteVariant(args.use_shiny, use_female2), FALSE) >>
    /\ pc' = "sprites"
    /\ UNCHANGED <<args, TEMP_DIR, loc, i, battle_frames, frames,
                   mimsave_calls, returned, effVars, battleVars>>
    /\ UnchangedServiceBut({})

\* line 564 on battle_result = None: None.get raises AttributeError
RaiseOnNone ==
    /\ pc = "sprites"
    /\ args.battle_result = <<>>
    /\ pc' = "raised"
    /\ UNCHANGED <<args, TEMP_DIR, sprites, loc, i, battle_frames, frames,
                   mimsave_calls, returned, effVars, battleVars>>
    /\ UnchangedServiceBut({})

\* lines 591-592: 0.2 for the side whose lower-cased name is winner_name, else 0.0
FinalHealth(winner_name, pokemon_data) ==
    IF winner_name = Lower(pokemon_data.name) THEN F0_2 ELSE FZero

\* the locals of lines 564-600, given the winner's name, the effectiveness and
\* the random draws
Locals(battle_result, p1, p2, winner_name, type_effectiveness, num_frames, rotation, p1_damage_frames, p2_damage_frames, decreases) ==
    [ winner_name |-> winner_name,
      reasoning |-> DictGet(battle_result, "reasoning", DefaultReasoning),
      type_effectiveness |-> type_effectiveness,
      num_frames |-> num_frames,
      messages |->
          Rotate(BattleMessagePool(p1, p2, type_effectiveness), rotation),
      p1_final_health |-> FinalHealth(winner_name, p1),
      p2_final_health |-> FinalHealth(winner_name, p2),
      p1_damage_frames |-> p1_damage_frames,
      p2_damage_frames |-> p2_damage_frames,
      p1_decreases |-> decreases[1],
      p2_decreases |-> decreases[2] ]

LocalsOf(battle_result, p1, p2, winner_name, type_effectiveness, num_frames, rotation, p1_damage_frames, p2_damage_frames) ==
    Locals(battle_result, p1, p2, winner_name, type_effectiveness, num_frames,
           rotation, p1_damage_frames, p2_damage_frames,
           generate_health_decreases(num_frames,
               FinalHealth(winner_name, p1), FinalHealth(winner_name, p2),
               type_effectiveness, p1_damage_frames, p2_damage_frames))

\* lines 563-600: the winner, the effectiveness, the intro frame, the number of
\* battle frames, the shuffled messages and the two health curves
Prepare ==
    /\ pc = "sprites"
    /\ args.battle_result # <<>>
    /\ \E num_frames \in 12..15, rotation \in 0..MaxRotation :
       \E p1_damage_frames \in DamageChoices(num_frames),
          p2_damage_frames \in DamageChoices(num_frames) :
          loc' = << LocalsOf(args.battle_result[1], args.pokemon1_data,
                       args.pokemon2_data,
                       Lower(DictGet(args.battle_result[1], "winner", <<>>)),
                       get_type_effectiveness(args.pokemon1_data,
                                              args.pokemon2_data),
                       num_frames, rotation, p1_damage_frames,
                       p2_damage_frames) >>
    /\ frames' =
         << create_battle_frame(sprites[1], sprites[2],
                args.pokemon1_data.name, args.pokemon2_data.name, F1, F1,
                <<"Battle begins! ">> \o Capitalize(args.pokemon1_data.name)
                   \o <<" vs ">> \o Capitalize(args.pokemon2_data.name)) >>
    /\ i' = 0
    /\ battle_frames' = <<>>
    /\ pc' = "battle"
    /\ UNCHANGED <<args, TEMP_DIR, sprites, mimsave_calls, returned, effVars,
                   battleVars>>
    /\ UnchangedServiceBut({})

\* the frame of battle tick k (from 0): lines 606-635
\* lines 606-607: max(0, 1.0 - p_decreases[i])
HealthAt(decreases, k) == FMax(FZero, FSub(F1, decreases[k + 1]))

\* lines 610-635: the message chosen and the frame drawn
FrameWith(messages, start, p1, p2, p1_health, p2_health) ==
    create_battle_frame(sprites[1], sprites[2], p1.name, p2.name,
        p1_health, p2_health,
        SkipFainted(messages, start, start, p1_health, p2_health,
                    Capitalize(p1.name), Capitalize(p2.name)))

BattleFrame(k) ==
    FrameWith(loc[1].messages, k % Len(loc[1].messages), args.pokemon1_data,
              args.pokemon2_data, HealthAt(loc[1].p1_decreases, k),
              HealthAt(loc[1].p2_decreases, k))

\* one pass of the loop of line 605
BattleTick ==
    /\ pc = "battle"
    /\ i < loc[1].num_frames
    /\ battle_frames' = battle_frames \o TickFrames(BattleFrame(i))
    /\ i' = i + 1
    /\ UNCHANGED <<pc, args, TEMP_DIR, sprites, loc, frames, mimsave_calls,
                   returned, effVars, battleVars>>
    /\ UnchangedServiceBut({})

\* lines 648-653
FinalFrame ==
    LET l == loc[1]
    IN  create_battle_frame(sprites[1], sprites[2], args.pokemon1_data.name,
            args.pokemon2_data.name, l.p1_final_health, l.p2_final_health,
            Capitalize(l.winner_name) \o <<" wins the battle! ">>
               \o <<ReasoningShown(l.reasoning)>>)

\* lines 645-675: the frames put together, the path, the directory, the encoder.
\* os.makedirs and imageio.mimsave may each raise; nothing catches it.
Finish ==
    /\ pc = "battle"
    /\ i = loc[1].num_frames
    /\ LET all == frames \o battle_frames \o FinalFrames(FinalFrame)
       IN  /\ frames' = all
           /\ \E now \in 0..MaxClock,
                 io \in {"ok", "makedirs raises", "mimsave raises"} :
                 LET output_filepath == OutputPath(TEMP_DIR, now)
                     durations == [k \in 1..Len(all) |-> 1000]
                     call == [ uri |-> output_filepath, ims |-> all,
                               duration |-> durations, loop |-> 0 ]
                 IN  /\ mimsave_calls' =
                          IF io = "makedirs raises" THEN mimsave_calls
                          ELSE Append(mimsave_calls, call)
                     /\ returned' =
                          IF io = "ok" THEN <<output_filepath>> ELSE returned
                     /\ pc' = IF io = "ok" THEN "returned" ELSE "raised"
    /\ UNCHANGED <<args, TEMP_DIR, sprites, loc, i, battle_frames, effVars,
                   battleVars>>
    /\ UnchangedServiceBut({})

Next ==
    \/ SelectSprites
    \/ RaiseOnNone
    \/ Prepare
    \/ BattleTick
    \/ Finish

Spec == Init /\ [][Next]_vars

(***************************************************************************)
(* The file cache under get_pokemon_data, get_pokemon_form_data and        *)
(* get_pokemon_sprite calls, each with any failure of its requests and of   *)
(* its cache writes                                                        *)
(***************************************************************************)
InitCache ==
    /\ pc = "cache"
    /\ NoCache
    /\ NoEff
    /\ NoBattle
    /\ NoAnimation
    /\ NoServiceBut({"cache"})

\* the record kept of a call: its arguments and what Outcome/SpriteOutcome tell
Lookup(fn, pokemon_name, sprite_variant, is_first_pokemon, out, sprite_url) ==
    [ fn |-> fn, pokemon_name |-> pokemon_name,
      sprite_variant |-> sprite_variant,
      is_first_pokemon |-> is_first_pokemon, value |-> out.value,
      requests |-> out.requests, failed |-> out.failed, hit |-> out.hit,
      sprite_url |-> sprite_url ]

\* what names a lookup: the function, the normalized name, the side, the variant
Asked(fn, pokemon_name, sprite_variant, is_first_pokemon) ==
    <<fn, NormalizeName(pokemon_name), sprite_variant, is_first_pokemon>>

\* the lookups that came back with the fallback record, None or the placeholder
Degraded(fn, pokemon_name, sprite_variant, is_first_pokemon, out) ==
    IF \/ fn = "get_pokemon_data" /\ "species" \in out.failed
       \/ fn = "get_pokemon_form_data" /\ "form" \in out.failed
       \/ fn = "get_pokemon_sprite" /\ out.value.kind = "placeholder"
    THEN degraded \cup {Asked(fn, pokemon_name, sprite_variant, is_first_pokemon)}
    ELSE degraded

DataReturns(fn, pokemon_name, out) ==
    /\ json_files' = out.files
    /\ lookup' = << Lookup(fn, pokemon_name, "", FALSE, out, <<>>) >>
    /\ degraded' = Degraded(fn, pokemon_name, "", FALSE, out)

GetPokemonData ==
    /\ pc = "cache"
    /\ ncalls < MaxCalls
    /\ \E pokemon_name \in CacheNames, reachable \in BOOLEAN,
          disk \in DiskOutcomes :
          DataReturns("get_pokemon_data", pokemon_name,
              get_pokemon_data(json_files, pokemon_name, reachable, disk))
    /\ ncalls' = ncalls + 1
    /\ UNCHANGED <<pc, png_files, effVars, battleVars, animVars>>
    /\ UnchangedServiceBut({"cache"})

GetPokemonFormData ==
    /\ pc = "cache"
    /\ ncalls < MaxCalls
    /\ \E pokemon_name \in CacheNames, reachable \in BOOLEAN,
          disk \in DiskOutcomes :
          DataReturns("get_pokemon_form_data", pokemon_name,
              get_pokemon_form_data(json_files, pokemon_name, reachable, disk))
    /\ ncalls' = ncalls + 1
    /\ UNCHANGED <<pc, png_files, effVars, battleVars, animVars>>
    /\ UnchangedServiceBut({"cache"})

SpriteReturns(pokemon_name, sprite_variant, is_first_pokemon, out) ==
    /\ json_files' = out.json
    /\ png_files' = out.png
    /\ lookup' = << Lookup("get_pokemon_sprite", pokemon_name, sprite_variant,
                           is_first_pokemon, out, out.sprite_url) >>
    /\ degraded' = Degraded("get_pokemon_sprite", pokemon_name, sprite_variant,
                            is_first_pokemon, out)

GetPokemonSprite ==
    /\ pc = "cache"
    /\ ncalls < MaxCalls
    /\ \E pokemon_name \in CacheNames, sprite_variant \in SpriteVariants,
          is_first_pokemon \in BOOLEAN, net \in NetOutcomes,
          disk \in DiskOutcomes :
          SpriteReturns(pokemon_name, sprite_variant, is_first_pokemon,
              get_pokemon_sprite_call(json_files, png_files, pokemon_name,
                  sprite_variant, is_first_pokemon, net, disk))
    /\ ncalls' = ncalls + 1
    /\ UNCHANGED <<pc, effVars, battleVars, animVars>>
    /\ UnchangedServiceBut({"cache"})

NextCache ==
    \/ GetPokemonData
    \/ GetPokemonFormData
    \/ GetPokemonSprite

SpecCache == InitCache /\ [][NextCache]_vars


(***************************************************************************)
(* Several generate_battle_animation calls, one after the other or at the  *)
(* same time, that save under the same TEMP_DIR: lines 660-675             *)
(***************************************************************************)
InitRenders ==
    /\ pc = "renders"
    /\ clock = 0
    /\ shared_temp_dir \in {<<>>, <<"./tmp">>}
    /\ renders = [p \in Renderers |-> [at |-> "idle", returned |-> <<>>]]
    /\ gif_files = <<>>
    /\ NoEff
    /\ NoBattle
    /\ NoAnimation
    /\ NoServiceBut({"renders"})

\* time passes
ClockTick ==
    /\ pc = "renders"
    /\ clock < MaxTime
    /\ clock' = clock + 1
    /\ UNCHANGED <<pc, shared_temp_dir, renders, gif_files, effVars,
                   battleVars, animVars>>
    /\ UnchangedServiceBut({"renders"})

\* a call is made: lines 517-658, the frames are drawn
BeginRender(p) ==
    /\ pc = "renders"
    /\ renders[p].at = "idle"
    /\ renders' = [renders EXCEPT ![p].at = "drawn"]
    /\ UNCHANGED <<pc, clock, shared_temp_dir, gif_files, effVars,
                   battleVars, animVars>>
    /\ UnchangedServiceBut({"renders"})

\* int(time.time()): the whole seconds elapsed
WholeSeconds(ticks) == ticks \div TicksPerSecond

\* lines 660-675: the path from the clock, the file written, the path returned
SaveRender(p) ==
    /\ pc = "renders"
    /\ renders[p].at = "drawn"
    /\ renders' =
          [renders EXCEPT
              ![p] = [ at |-> "returned",
                       returned |->
                          << OutputPath(shared_temp_dir,
                                        WholeSeconds(clock)) >> ]]
    /\ gif_files' =
          (OutputPath(shared_temp_dir, WholeSeconds(clock)) :> p) @@ gif_files
    /\ UNCHANGED <<pc, clock, shared_temp_dir, effVars, battleVars, animVars>>
    /\ UnchangedServiceBut({"renders"})

NextRenders ==
    \/ ClockTick
    \/ \E p \in Renderers : BeginRender(p)
    \/ \E p \in Renderers : SaveRender(p)

SpecRenders == InitRenders /\ [][NextRenders]_vars

(***************************************************************************)
(* ensure_complete_pokemon_data, called on every shape of record, with the *)
(* species lookup answering or not                                         *)
(***************************************************************************)
InitComplete ==
    /\ pc = "complete_called"
    /\ given \in IncompleteRecords
    /\ pokemon_record = given
    /\ completed = <<>>
    /\ NoEff
    /\ NoBattle
    /\ NoAnimation
    /\ NoServiceBut({"complete"})

\* lines 57-58
RaiseValueError ==
    /\ pc = "complete_called"
    /\ ~DictTruthy(pokemon_record, "name")
    /\ pc' = "raised"
    /\ UNCHANGED <<completeVars, effVars, battleVars, animVars>>
    /\ UnchangedServiceBut({"complete"})

\* lines 61-101 when line 61 asks for the species record
CompleteWithLookup ==
    /\ pc = "complete_called"
    /\ DictTruthy(pokemon_record, "name")
    /\ NeedsLookup(pokemon_record)
    /\ \E reachable \in BOOLEAN, disk \in DiskOutcomes :
          /\ pokemon_record' =
                CompletedFrom(pokemon_record,
                    get_pokemon_data(json_files, pokemon_record["name"],
                                     reachable, disk).value)
          /\ json_files' =
                get_pokemon_data(json_files, pokemon_record["name"], reachable,
                                 disk).files
    /\ completed' = <<pokemon_record'>>
    /\ pc' = "complete_returned"
    /\ UNCHANGED <<given, png_files, lookup, degraded, ncalls, effVars,
                   battleVars, animVars>>
    /\ UnchangedServiceBut({"complete", "cache"})

\* lines 61-101 when the record has both base_stats and types
CompleteWithoutLookup ==
    /\ pc = "complete_called"
    /\ DictTruthy(pokemon_record, "name")
    /\ ~NeedsLookup(pokemon_record)
    /\ pokemon_record' = WithDefaultTypes(WithDefaultStats(pokemon_record))
    /\ completed' = <<pokemon_record'>>
    /\ pc' = "complete_returned"
    /\ UNCHANGED <<given, effVars, battleVars, animVars>>
    /\ UnchangedServiceBut({"complete"})

NextComplete ==
    \/ RaiseValueError
    \/ CompleteWithLookup
    \/ CompleteWithoutLookup

SpecComplete == InitComplete /\ [][NextComplete]_vars

(***************************************************************************)
(* fetch_pokemon_data and fetch_pokemon_info, called on every name under   *)
(* every condition of the API                                              *)
(***************************************************************************)
InitFetch ==
    /\ pc = "fetch_called"
    /\ \E fn \in {"fetch_pokemon_data", "fetch_pokemon_info"},
          pokemon_name \in FetchNames :
          fetch_call = [fn |-> fn, pokemon_name |-> pokemon_name]
    /\ api_condition \in ApiConditions
    /\ api_response = <<>>
    /\ fetch_result = <<>>
    /\ NoEff
    /\ NoBattle
    /\ NoAnimation
    /\ NoServiceBut({"fetch"})

\* the call ends: with its value, or with the exception that left it
FetchEnds(called, got) ==
    /\ api_response' = <<got>>
    /\ fetch_result' = called.value
    /\ pc' = IF called.raised # <<>> THEN "raised" ELSE "fetch_returned"

FetchPokemonData ==
    /\ pc = "fetch_called"
    /\ fetch_call.fn = "fetch_pokemon_data"
    /\ FetchEnds(fetch_pokemon_data(fetch_call.pokemon_name, api_condition),
                 RequestsGet(Strip(Lower(fetch_call.pokemon_name)),
                             api_condition))
    /\ UNCHANGED <<fetch_call, api_condition, effVars, battleVars, animVars>>
    /\ UnchangedServiceBut({"fetch"})

FetchPokemonInfo ==
    /\ pc = "fetch_called"
    /\ fetch_call.fn = "fetch_pokemon_info"
    /\ FetchEnds(fetch_pokemon_info(fetch_call.pokemon_name, api_condition),
                 RequestsGet(Strip(Lower(fetch_call.pokemon_name)),
                             api_condition))
    /\ UNCHANGED <<fetch_call, api_condition, effVars, battleVars, animVars>>
    /\ UnchangedServiceBut({"fetch"})

NextFetch ==
    \/ FetchPokemonData
    \/ FetchPokemonInfo

SpecFetch == InitFetch /\ [][NextFetch]_vars

(***************************************************************************)
(* GET /battle, whatever process_question does                             *)
(***************************************************************************)
InitEndpoint ==
    /\ pc = "battle_requested"
    /\ battle_request \in BattleRequests
    /\ process_question_outcome \in ProcessQuestionOutcomes
    /\ asked_question = <<>>
    /\ http_response = <<>>
    /\ NoEff
    /\ NoBattle
    /\ NoAnimation
    /\ NoServiceBut({"endpoint"})

Battle ==
    /\ pc = "battle_requested"
    /\ asked_question' =
          <<BattleQuestion(battle_request.pokemon1, battle_request.pokemon2)>>
    /\ http_response' = <<battle(process_question_outcome)>>
    /\ pc' = "battle_answered"
    /\ UNCHANGED <<battle_request, process_question_outcome, effVars, battleVars,
                   animVars>>
    /\ UnchangedServiceBut({"endpoint"})

NextEndpoint == Battle

SpecEndpoint == InitEndpoint /\ [][NextEndpoint]_vars

(***************************************************************************)
(* check_json on every text                                                *)
(***************************************************************************)
InitSupervisor ==
    /\ pc = "check_json_called"
    /\ model_text \in ModelTexts
    /\ check_json_result = <<>>
    /\ NoEff
    /\ NoBattle
    /\ NoAnimation
    /\ NoServiceBut({"supervisor"})

CheckJsonEnds(called) ==
    /\ check_json_result' = called.value
    /\ pc' = IF called.raised # <<>> THEN "raised" ELSE "check_json_returned"

CheckJson ==
    /\ pc = "check_json_called"
    /\ CheckJsonEnds(check_json(model_text))
    /\ UNCHANGED <<model_text, effVars, battleVars, animVars>>
    /\ UnchangedServiceBut({"supervisor"})

NextSupervisor == CheckJson

SpecSupervisor == InitSupervisor /\ [][NextSupervisor]_vars

(***************************************************************************)
(* Concurrent get_pokemon_data calls on one cache directory: lines 80-125  *)
(* of visualization_utils.py, one action per step that touches the file or *)
(* the network                                                             *)
(***************************************************************************)
IdleCaller ==
    [ at |-> "idle", pokemon_name |-> <<>>, data |-> <<>>, written |-> 0,
      missed |-> FALSE, returned |-> <<>> ]

InitRace ==
    /\ pc = "race"
    /\ callers = [p \in Callers |-> IdleCaller]
    /\ cache_files = <<>>
    /\ NoEff
    /\ NoBattle
    /\ NoAnimation
    /\ NoServiceBut({"race"})

RaceStep(p, caller, files) ==
    /\ pc = "race"
    /\ callers' = [callers EXCEPT ![p] = caller]
    /\ cache_files' = files
    /\ UNCHANGED <<pc, effVars, battleVars, animVars>>
    /\ UnchangedServiceBut({"race"})

\* line 90: the call is made and the name normalized
CallGetPokemonData(p) ==
    /\ callers[p].at = "idle"
    /\ \E name \in RaceNames :
          RaceStep(p, [callers[p] EXCEPT !.at = "called",
                                         !.pokemon_name = NormalizeName(name)],
                   cache_files)

\* lines 93-96: the cache is read; a record is returned at once
CheckCache(p) ==
    /\ callers[p].at = "called"
    /\ RaceStep(p,
          IF get_cached_data(cache_files, CacheKey(callers[p].pokemon_name)) # <<>>
          THEN [callers[p] EXCEPT
                  !.at = "returned",
                  !.returned = get_cached_data(cache_files,
                                  CacheKey(callers[p].pokemon_name))]
          ELSE [callers[p] EXCEPT !.at = "missed", !.missed = TRUE],
          cache_files)

\* lines 100-103: the provider answers
FetchSucceeds(p) ==
    /\ callers[p].at = "missed"
    /\ SpeciesRecord(callers[p].pokemon_name) # <<>>
    /\ RaceStep(p, [callers[p] EXCEPT
                      !.at = "fetched",
                      !.data = SpeciesRecord(callers[p].pokemon_name)],
                cache_files)

\* lines 108-125: the request fails and the minimal record is returned
FetchFails(p) ==
    /\ callers[p].at = "missed"
    /\ RaceStep(p, [callers[p] EXCEPT
                      !.at = "returned",
                      !.returned = <<FallbackRecord(callers[p].pokemon_name)>>],
                cache_files)

\* line 46: open(cache_file, "w") creates the file or empties it
OpenCacheFile(p) ==
    /\ callers[p].at = "fetched"
    /\ RaceStep(p, [callers[p] EXCEPT !.at = "writing"],
                (CacheKey(callers[p].pokemon_name) :> <<>>) @@ cache_files)

\* line 47: json.dump writes its next chunk
WriteChunk(p) ==
    /\ callers[p].at = "writing"
    /\ callers[p].written < ChunksPerDump
    /\ RaceStep(p, [callers[p] EXCEPT !.written = @ + 1],
                [cache_files EXCEPT
                   ![CacheKey(callers[p].pokemon_name)] =
                      WriteAt(@, callers[p].written + 1,
                              JsonChunks(callers[p].data[1])[callers[p].written + 1])])

\* lines 47, 107: the file is closed and the fetched record returned
ReturnFetched(p) ==
    /\ callers[p].at = "writing"
    /\ callers[p].written = ChunksPerDump
    /\ RaceStep(p, [callers[p] EXCEPT !.at = "returned",
                                      !.returned = callers[p].data],
                cache_files)

NextRace ==
    \/ \E p \in Callers : CallGetPokemonData(p)
    \/ \E p \in Callers : CheckCache(p)
    \/ \E p \in Callers : FetchSucceeds(p)
    \/ \E p \in Callers : FetchFails(p)
    \/ \E p \in Callers : OpenCacheFile(p)
    \/ \E p \in Callers : WriteChunk(p)
    \/ \E p \in Callers : ReturnFetched(p)

SpecRace == InitRace /\ [][NextRace]_vars

(***************************************************************************)
(* GET /battle/visualize: the agent's answer, or the fallback that runs    *)
(* generate_battle_animation itself.  The fallback hands it the            *)
(* battle_result of line 117, None, so of the animation's steps only       *)
(* SelectSprites and RaiseOnNone are ever enabled here.                    *)
(***************************************************************************)
InitVisualize ==
    /\ pc = "visualize_requested"
    /\ battle_request \in VisualizeRequests
    /\ process_question_outcome \in VisualizeOutcomes
    /\ asked_question = <<>>
    /\ http_response = <<>>
    /\ NoEff
    /\ NoBattle
    /\ NoAnimation
    /\ NoServiceBut({"endpoint"})

\* lines 115-126 and 161-177 when process_question raises or gives a path
VisualizeFromAgent ==
    /\ pc = "visualize_requested"
    /\ ~LacksPath(process_question_outcome)
    /\ http_response' =
          IF process_question_outcome.raised # <<>>
          THEN <<VisualizationError(process_question_outcome.raised[1].message)>>
          ELSE <<VisualizationAnswer(battle_request,
                                     process_question_outcome.value[1])>>
    /\ pc' = "visualize_answered"
    /\ UNCHANGED <<battle_request, process_question_outcome, asked_question,
                   effVars, battleVars, animVars>>
    /\ UnchangedServiceBut({"endpoint"})

\* the fallback's two ensure_complete_pokemon_data calls, one after the other
CompleteBoth(first, reachable2, disk2) ==
    IF first.call.raised # <<>>
    THEN <<first, first>>
    ELSE <<first,
           ensure_complete_pokemon_data([name |-> battle_request.pokemon2],
                                        first.files, reachable2, disk2)>>

\* lines 127-153 up to the call of generate_battle_animation, or to the
\* exception of ensure_complete_pokemon_data
FallBackWith(both) ==
    /\ json_files' = both[2].files
    /\ IF both[1].call.raised # <<>> \/ both[2].call.raised # <<>>
       THEN /\ http_response' =
                  <<VisualizationError(<<"Pokemon data must include a name">>)>>
            /\ pc' = "visualize_answered"
            /\ UNCHANGED args
       ELSE /\ args' = [ pokemon1_data |-> both[1].call.value[1],
                         pokemon2_data |-> both[2].call.value[1],
                         battle_result |-> <<>>,
                         use_shiny |-> battle_request.use_shiny ]
            /\ pc' = "called"
            /\ UNCHANGED http_response

VisualizeFallsBack ==
    /\ pc = "visualize_requested"
    /\ LacksPath(process_question_outcome)
    /\ \E reachable1 \in BOOLEAN, reachable2 \in BOOLEAN,
          disk1 \in DiskOutcomes, disk2 \in DiskOutcomes :
          FallBackWith(CompleteBoth(
              ensure_complete_pokemon_data([name |-> battle_request.pokemon1],
                                           json_files, reachable1, disk1),
              reachable2, disk2))
    /\ UNCHANGED <<battle_request, process_question_outcome, asked_question,
                   TEMP_DIR, sprites, loc, i, battle_frames, frames,
                   mimsave_calls, returned, png_files, lookup, degraded, ncalls,
                   effVars, battleVars>>
    /\ UnchangedServiceBut({"endpoint", "cache"})

\* lines 155-177 once generate_battle_animation has returned or raised
VisualizeAfterAnimation ==
    /\ pc \in {"returned", "raised"}
    /\ battle_request # <<>>
    /\ http_response' =
          IF pc = "returned"
          THEN <<VisualizationAnswer(battle_request,
                                     FallbackResponse(returned[1]))>>
          ELSE <<VisualizationError(
                    <<"'NoneType' object has no attribute 'get'">>)>>
    /\ pc' = "visualize_answered"
    /\ UNCHANGED <<battle_request, process_question_outcome, asked_question,
                   effVars, battleVars, animVars>>
    /\ UnchangedServiceBut({"endpoint"})

NextVisualize ==
    \/ VisualizeFromAgent
    \/ VisualizeFallsBack
    \/ SelectSprites
    \/ RaiseOnNone
    \/ VisualizeAfterAnimation

SpecVisualize == InitVisualize /\ [][NextVisualize]_vars

(***************************************************************************)
(* create_health_bar on every health and width, under either build of the  *)
(* drawing library                                                         *)
(***************************************************************************)
InitBar ==
    /\ pc = "bar_called"
    /\ bar_call \in { [health_percentage |-> h, width |-> w, height |-> BarHeight] :
                        h \in BarHealths, w \in BarWidths }
    /\ rectangle_checks_order \in BOOLEAN
    /\ health_bar = <<>>
    /\ NoEff
    /\ NoBattle
    /\ NoAnimation
    /\ NoServiceBut({"bar"})

CreateHealthBar ==
    /\ pc = "bar_called"
    /\ health_bar' = create_health_bar(bar_call.health_percentage,
                                       bar_call.width, bar_call.height,
                                       rectangle_checks_order)
    /\ pc' = IF health_bar'.raised # <<>> THEN "raised" ELSE "bar_returned"
    /\ UNCHANGED <<bar_call, rectangle_checks_order, effVars, battleVars,
                   animVars>>
    /\ UnchangedServiceBut({"bar"})

NextBar == CreateHealthBar

SpecBar == InitBar /\ [][NextBar]_vars

(***************************************************************************)
(* The background keying of get_pokemon_sprite on every fetched image      *)
(***************************************************************************)
InitKeying ==
    /\ pc = "sprite_opened"
    /\ fetched_sprite \in FetchedSprites
    /\ keyed_sprite = <<>>
    /\ NoEff
    /\ NoBattle
    /\ NoAnimation
    /\ NoServiceBut({"keying"})

KeySprite ==
    /\ pc = "sprite_opened"
    /\ keyed_sprite' = KeyBackground(fetched_sprite.size, fetched_sprite.data)
    /\ pc' = "sprite_keyed"
    /\ UNCHANGED <<fetched_sprite, effVars, battleVars, animVars>>
    /\ UnchangedServiceBut({"keying"})

NextKeying == KeySprite

SpecKeying == InitKeying /\ [][NextKeying]_vars

(***************************************************************************)
(* calculate_type_effectiveness and get_type_effectiveness on every pair   *)
(* of lists of one or two of the 18 types                                  *)
(***************************************************************************)
InitTypes ==
    /\ pc = "effectiveness_called"
    /\ attacker_types \in OneOrTwoTypes
    /\ defender_types \in OneOrTwoTypes
    /\ effectiveness = <<>>
    /\ NoBattle
    /\ NoAnimation
    /\ NoServiceBut({})

\* the compositor's chart on the records that hold the same two lists
GetTypeEffectiveness ==
    /\ pc = "effectiveness_returned"
    /\ chart_effectiveness' =
          <<get_type_effectiveness([types |-> attacker_types],
                                   [types |-> defender_types])>>
    /\ pc' = "chart_returned"
    /\ UNCHANGED <<effVars, battleVars, animVars>>
    /\ UnchangedServiceBut({"chart"})

NextTypes ==
    \/ CalculateTypeEffectiveness
    \/ GetTypeEffectiveness

SpecTypes == InitTypes /\ [][NextTypes]_vars

(***************************************************************************)
(* analyze_pokemon_battle called on a pair of records and then on the same *)
(* two records in the other order                                          *)
(***************************************************************************)
InitSwap ==
    /\ pc = "battle_called"
    /\ \E pair \in BattlePairs :
          /\ pokemon1 = pair[1]
          /\ pokemon2 = pair[2]
    /\ verdict = <<>>
    /\ NoEff
    /\ NoAnimation
    /\ NoServiceBut({})

AnalyzeSwapped ==
    /\ pc = "battle_returned"
    /\ BattleRaised(pokemon2, pokemon1) = <<>>
    /\ swapped_verdict' = <<BattleLocals(pokemon2, pokemon1)>>
    /\ pc' = "swapped_returned"
    /\ UNCHANGED <<effVars, battleVars, animVars>>
    /\ UnchangedServiceBut({"swap"})

NextSwap ==
    \/ AnalyzePokemonBattle
    \/ AnalyzeSwapped

SpecSwap == InitSwap /\ [][NextSwap]_vars

(***************************************************************************)
(* The message replacement of a battle tick, pass by pass.  The loop runs  *)
(* on its own, so each of its steps is taken when it can be.               *)
(***************************************************************************)
InitLoop ==
    /\ pc = "loop_test"
    /\ loop_call \in LoopCalls
    /\ loop_index = loop_call.start
    /\ loop_message = loop_call.messages[loop_call.start + 1]
    /\ loop_advances = 0
    /\ NoEff
    /\ NoBattle
    /\ NoAnimation
    /\ NoServiceBut({"loop"})

LoopRuns ==
    LoopCondition(loop_call.messages, loop_message, loop_call.p1_health,
                  loop_call.p2_health, loop_call.p1_cap, loop_call.p2_cap)

\* the pass that would be taken breaks out of the loop
PassBreaks ==
    /\ BackAtStart(IndexAfter(loop_call.messages, loop_index), loop_call.start)
    /\ FaintAnnouncement(loop_call.p1_health, loop_call.p2_health,
                         loop_call.p1_cap, loop_call.p2_cap) # <<>>

\* lines 614-615 when the condition is false
LeaveLoop ==
    /\ pc = "loop_test"
    /\ ~LoopRuns
    /\ pc' = "loop_done"
    /\ UNCHANGED <<loop_call, loop_index, loop_message, loop_advances,
                   effVars, battleVars, animVars>>
    /\ UnchangedServiceBut({"loop"})

\* lines 616-621: a pass that goes back to the test
AdvanceMessage ==
    /\ pc = "loop_test"
    /\ LoopRuns
    /\ ~PassBreaks
    /\ loop_advances <= Len(loop_call.messages)
    /\ loop_index' = IndexAfter(loop_call.messages, loop_index)
    /\ loop_message' = loop_call.messages[loop_index' + 1]
    /\ loop_advances' = loop_advances + 1
    /\ UNCHANGED <<pc, loop_call, effVars, battleVars, animVars>>
    /\ UnchangedServiceBut({"loop"})

\* lines 616-627: the pass that ends in a break
AnnounceFaint ==
    /\ pc = "loop_test"
    /\ LoopRuns
    /\ PassBreaks
    /\ loop_index' = IndexAfter(loop_call.messages, loop_index)
    /\ loop_message' = FaintAnnouncement(loop_call.p1_health,
                                         loop_call.p2_health, loop_call.p1_cap,
                                         loop_call.p2_cap)[1]
    /\ loop_advances' = loop_advances + 1
    /\ pc' = "loop_done"
    /\ UNCHANGED <<loop_call, effVars, battleVars, animVars>>
    /\ UnchangedServiceBut({"loop"})

NextLoop ==
    \/ LeaveLoop
    \/ AdvanceMessage
    \/ AnnounceFaint

SpecLoop == InitLoop /\ [][NextLoop]_vars

SpecLoopFair == SpecLoop /\ WF_vars(NextLoop)

(***************************************************************************)
(* Properties of calculate_type_effectiveness, checked under SpecEff       *)
(***************************************************************************)
EffReturned == pc = "effectiveness_returned"

\* some attacker type lists some defender type in its TYPE_IMMUNITIES entry
ImmunityPresent ==
    \E a \in DOMAIN attacker_types, d \in DOMAIN defender_types :
       /\ attacker_types[a] \in DOMAIN TYPE_IMMUNITIES
       /\ \E k \in DOMAIN TYPE_IMMUNITIES[attacker_types[a]] :
             TYPE_IMMUNITIES[attacker_types[a]][k] = defender_types[d]

\* the (attacker type, defender type) positions where the defender type is in
\* the attacker type's TYPE_ADVANTAGES entry
AdvantagePairs ==
    { pr \in (DOMAIN attacker_types) \X (DOMAIN defender_types) :
        /\ attacker_types[pr[1]] \in DOMAIN TYPE_ADVANTAGES
        /\ \E k \in DOMAIN TYPE_ADVANTAGES[attacker_types[pr[1]]] :
              TYPE_ADVANTAGES[attacker_types[pr[1]]][k] = defender_types[pr[2]] }

\* C1: whenever an attacker type has a defender type in its immunity list, the
\* call returns exactly 0.0, in every order of the two lists and whatever
\* super-effective matches exist; [electric] against [ground] and [ground]
\* against [flying] return 0.0.
C1_ImmunityReturnsZero ==
    EffReturned =>
       /\ ImmunityPresent => effectiveness = <<FZero>>
       /\ (attacker_types = <<"electric">> /\ defender_types = <<"ground">>)
             => effectiveness = <<FZero>>
       /\ (attacker_types = <<"ground">> /\ defender_types = <<"flying">>)
             => effectiveness = <<FZero>>

\* C1's case: water is super effective against ground and is looked at first,
\* electric is immune-listed against ground, and the call returned 0.0
C1_ImmunityOverridesAdvantage ==
    /\ EffReturned
    /\ attacker_types = <<"water", "electric">>
    /\ defender_types = <<"ground">>
    /\ AdvantagePairs # {}
    /\ ImmunityPresent
    /\ effectiveness = <<FZero>>

BattleReturned == pc = "battle_returned"

\* hp * (((defense + special_defense) / 2) / 100)
EffectiveBulk(stats) ==
    FMul(FInt(stats.hp),
         FDiv(FDiv(FInt(stats.defense + stats.special_defense), F2), FInt(100)))

\* max(attack, special_attack) * effectiveness of own types against the opponent's
AttackPower(own, opponent) ==
    FMul(FInt(Max2(own.base_stats.attack, own.base_stats.special_attack)),
         calculate_type_effectiveness(own.types, opponent.types))

\* the opponent's effective bulk divided by max(own attack power, 1)
TurnsToWin(own, opponent) ==
    FDiv(EffectiveBulk(opponent.base_stats), FMax(AttackPower(own, opponent), F1))

\* -1, 0 or 1 as the first side needs fewer, as many or more turns
TurnsOrder(first, second) ==
    FCmp(TurnsToWin(first, second), TurnsToWin(second, first))

LadderWinner(first, second) ==
    CASE TurnsOrder(first, second) < 0 -> first.name
      [] TurnsOrder(first, second) > 0 -> second.name
      [] OTHER ->
           IF first.base_stats.speed > second.base_stats.speed THEN first.name
           ELSE IF second.base_stats.speed > first.base_stats.speed
           THEN second.name
           ELSE IF first.base_stats.hp > second.base_stats.hp THEN first.name
           ELSE second.name

PikachuFirst == BattleReturned /\ pokemon1 = Pikachu /\ pokemon2 = Charizard

CharizardFirst == BattleReturned /\ pokemon1 = Charizard /\ pokemon2 = Pikachu

\* C5 as stated: for pikachu and charizard the evaluator's effectiveness is 1.0
\* in both directions.
C5_NeutralBothDirections ==
    (PikachuFirst \/ CharizardFirst) =>
       /\ verdict[1].p1_type_effectiveness = F1
       /\ verdict[1].p2_type_effectiveness = F1

\* C5 amended: pikachu against charizard is 2.0, because TYPE_ADVANTAGES lists
\* flying for electric; charizard against pikachu is 1.0; no immunity triggers
\* either way.
C5_ElectricHitsFlying ==
    /\ PikachuFirst =>
          /\ verdict[1].p1_type_effectiveness = F2
          /\ verdict[1].p2_type_effectiveness = F1
    /\ CharizardFirst =>
          /\ verdict[1].p1_type_effectiveness = F1
          /\ verdict[1].p2_type_effectiveness = F2
    /\ (PikachuFirst \/ CharizardFirst) =>
          \A a \in {"electric", "fire", "flying"} :
             a \in DOMAIN TYPE_IMMUNITIES =>
                \A k \in DOMAIN TYPE_IMMUNITIES[a] :
                   TYPE_IMMUNITIES[a][k] \notin {"electric", "fire", "flying"}

\* C5's case: the call on (charizard, pikachu) returned with the second side's
\* effectiveness doubled by the flying type
C5_CharizardTakesDouble ==
    /\ CharizardFirst
    /\ verdict[1].p1_type_effectiveness = F1
    /\ verdict[1].p2_type_effectiveness = F2

\* C6: with pikachu as first input and charizard as second, the winner is
\* charizard.
C6_CharizardWins ==
    PikachuFirst => verdict[1].winner = Charizard.name

\* C6's case: the call on (pikachu, charizard) returned, charizard needing
\* strictly fewer turns, and named charizard
C6_CharizardWinsOnTurns ==
    /\ PikachuFirst
    /\ FLt(verdict[1].p2_turns_to_win, verdict[1].p1_turns_to_win)
    /\ verdict[1].winner = <<"c", "h", "a", "r", "i", "z", "a", "r", "d">>


(***************************************************************************)
(* Properties of generate_battle_animation, checked under Spec             *)
(***************************************************************************)
ReturnedPath == pc = "returned"

\* every pass of the battle loop has run and the frames are not yet assembled
TicksDone == pc = "battle" /\ i = loc[1].num_frames

TempDirInUse == IF TEMP_DIR = <<>> THEN "/tmp" ELSE TEMP_DIR[1]

\* the frame sequence of a returning call with n ticks
ExpectedSequence(n, ims) ==
    /\ Len(ims) = 1 + 2 * n + 3
    /\ ims[1].pokemon1_health = F1
    /\ ims[1].pokemon2_health = F1
    /\ Head(ims[1].message) = "Battle begins! "
    /\ \A k \in 0..(n - 1) :
          /\ ims[2 + 2 * k] = BattleFrame(k)
          /\ ims[3 + 2 * k] = BattleFrame(k)
    /\ \A j \in 1..3 : ims[1 + 2 * n + j] = FinalFrame

C8_OneSideEndsAtFifth ==
    ReturnedPath =>
       \/ /\ frames[Len(frames)].pokemon1_health = F0_2
          /\ frames[Len(frames)].pokemon2_health = FZero
       \/ /\ frames[Len(frames)].pokemon1_health = FZero
          /\ frames[Len(frames)].pokemon2_health = F0_2

\* the health shown for a side at tick k (from 0)
ShownHealth(side, k) ==
    IF side = 1 THEN battle_frames[2 * k + 1].pokemon1_health
    ELSE battle_frames[2 * k + 1].pokemon2_health

TargetHealth(side) ==
    IF side = 1 THEN loc[1].p1_final_health ELSE loc[1].p2_final_health

\* C9: for each side the health shown over the ticks never increases, stays
\* between the side's target end health and 1.0, and at the last tick equals
\* the target end health exactly.
C9_HealthFallsToTarget ==
    TicksDone =>
       \A side \in {1, 2} :
          /\ \A k \in 0..(i - 2) :
                FLe(ShownHealth(side, k + 1), ShownHealth(side, k))
          /\ \A k \in 0..(i - 1) :
                /\ FLe(TargetHealth(side), ShownHealth(side, k))
                /\ FLe(ShownHealth(side, k), F1)
          /\ ShownHealth(side, i - 1) = TargetHealth(side)

\* the multiplier of the opponent of a side, and the side's curve and draws
OpponentMultiplier(side) ==
    IF side = 1 THEN loc[1].type_effectiveness.p2_against_p1
    ELSE loc[1].type_effectiveness.p1_against_p2

DecreasesOf(side) ==
    IF side = 1 THEN loc[1].p1_decreases ELSE loc[1].p2_decreases

\* the curve of the side for the same num_frames, damage frames and target end
\* health under a neutral multiplier
NeutralDecreases(side) ==
    HealthCurve(loc[1].num_frames, TargetHealth(side), F1,
        IF side = 1 THEN loc[1].p1_damage_frames ELSE loc[1].p2_damage_frames)

\* C10: with the same num_frames, damage frames and target end health, a side
\* whose opponent's multiplier is 2 loses health faster than under a neutral
\* multiplier, and one whose opponent's multiplier is 0.5 loses it slower: the
\* curves returned by generate_health_decreases differ with the multiplier.
C10_MultiplierChangesCurve ==
    pc = "battle" =>
       \A side \in {1, 2} :
          /\ OpponentMultiplier(side) = F2 =>
                \E k \in 1..loc[1].num_frames :
                   FGt(DecreasesOf(side)[k], NeutralDecreases(side)[k])
          /\ OpponentMultiplier(side) = F0_5 =>
                \E k \in 1..loc[1].num_frames :
                   FLt(DecreasesOf(side)[k], NeutralDecreases(side)[k])

(***************************************************************************)
(* The message of a battle tick                                            *)
(***************************************************************************)
TickCount == Len(battle_frames) \div 2

TickMessage(k) == battle_frames[2 * k + 1].message

CapName(side) ==
    Capitalize(IF side = 1 THEN args.pokemon1_data.name
               ELSE args.pokemon2_data.name)

Announcement(side) == CapName(side) \o <<" has fainted!">>

Fainted(side, k) == FLe(ShownHealth(side, k), FZero)

\* every message of the shuffled pool begins with the name of a side that is
\* down at tick k
NoSubstitute(k) ==
    \A j \in DOMAIN loc[1].messages :
       ActorFainted(loc[1].messages[j], ShownHealth(1, k), ShownHealth(2, k),
                    CapName(1), CapName(2))

\* C11: in every battle-tick frame the message does not begin with the
\* capitalized name of a side whose health at that tick is 0 or less, unless
\* it is that side's "<Name> has fainted!" announcement; the announcement is
\* shown only when no message of the shuffled pool is a valid substitute.
C11_NoMessageFromFaintedSide ==
    \A k \in 0..(TickCount - 1) :
       /\ \A side \in {1, 2} :
             (Fainted(side, k) /\ StartsWith(TickMessage(k), CapName(side)))
                => TickMessage(k) = Announcement(side)
       /\ (\E side \in {1, 2} : TickMessage(k) = Announcement(side))
             => NoSubstitute(k)

\* C11's case: a finished run of ticks in which one tick replaced the message
\* of its own index by a later one of the pool and another tick, with every
\* message of the pool ruled out, shows the announcement
C11_SubstituteAndAnnouncement ==
    /\ pc = "battle"
    /\ TickCount = loc[1].num_frames
    /\ \E k \in 0..(TickCount - 1) :
          /\ Fainted(2, k)
          /\ ~Fainted(1, k)
          /\ StartsWith(loc[1].messages[(k % Len(loc[1].messages)) + 1],
                        CapName(2))
          /\ TickMessage(k) \in
                {loc[1].messages[j] : j \in DOMAIN loc[1].messages}
    /\ \E k \in 0..(TickCount - 1) :
          /\ NoSubstitute(k)
          /\ TickMessage(k) = Announcement(1)

(***************************************************************************)
(* Properties of the file cache and of the lookups, checked under SpecCache *)
(***************************************************************************)
KnownNames == { <<"a", "b">>, <<"p", "c">> }

LookedUp(fn) == pc = "cache" /\ lookup # <<>> /\ lookup[1].fn = fn

LastName == NormalizeName(lookup[1].pokemon_name)

LabelledPlaceholder(image, pokemon_name) ==
    /\ image.kind = "placeholder"
    /\ image.text = <<"No sprite for\n">> \o pokemon_name

ImageStageFailed == lookup[1].failed \cap {"download", "decode"} # {}

\* C12 as stated: a get_pokemon_sprite call in which any of the form lookup,
\* the species lookup, the download or the decoding failed, or which found no
\* sprite URL, returns the placeholder labelled with the name.
C12_PlaceholderOnAnyFailure ==
    (LookedUp("get_pokemon_sprite") /\ ~lookup[1].hit)
       => ((lookup[1].failed # {} \/ lookup[1].sprite_url = <<>>)
             => LabelledPlaceholder(lookup[1].value, LastName))

\* C12: every get_pokemon_sprite call returns an image, whatever fails: the
\* placeholder labelled "No sprite for <normalized name>" when no sprite URL
\* is found (which includes both lookups failing), when the download fails or
\* when the decoding fails, and otherwise the sprite of the URL found; a failed
\* form or species lookup alone does not by itself give the placeholder.
C12_SpriteOrPlaceholder ==
    (LookedUp("get_pokemon_sprite") /\ ~lookup[1].hit)
       => /\ (lookup[1].sprite_url = <<>> \/ ImageStageFailed)
               => LabelledPlaceholder(lookup[1].value, LastName)
          /\ (lookup[1].sprite_url # <<>> /\ ~ImageStageFailed)
               => /\ lookup[1].value.kind = "sprite"
                  /\ lookup[1].value.from = lookup[1].sprite_url[1]
          /\ ({"form", "species"} \subseteq lookup[1].failed)
               => lookup[1].sprite_url = <<>>

\* C12's case: the front sprite of "A.b" was asked for, the species lookup
\* failed, the form record gave a URL, the decoding failed, and the placeholder
\* labelled "ab" came back
C12_DecodingFailedAfterLostLookup ==
    /\ LookedUp("get_pokemon_sprite")
    /\ lookup[1].pokemon_name = <<"A", ".", "b">>
    /\ ~lookup[1].is_first_pokemon
    /\ lookup[1].failed = {"species", "decode"}
    /\ lookup[1].sprite_url # <<>>
    /\ lookup[1].value.kind = "placeholder"
    /\ lookup[1].value.text = <<"No sprite for\n", "a", "b">>

\* the sprites a get_pokemon_sprite call can fetch for a name, a side and a
\* variant, whichever of the two lookups answer
GenuineSprites(pokemon_name, is_first_pokemon, sprite_variant) ==
    { [kind |-> "sprite", from |-> u[1]] :
        u \in { SpriteUrl(is_first_pokemon, sprite_variant, form_data, data) :
                  form_data \in {<<>>, FormRecord(pokemon_name)},
                  data \in {SpeciesRecord(pokemon_name)[1],
                            FallbackRecord(pokemon_name)} } \ {<<>>} }

GenuineJson(cache_key, content) ==
    \E n \in KnownNames :
       \/ cache_key = <<"pokemon_">> \o n /\ content = SpeciesRecord(n)
       \/ cache_key = <<"pokemon_form_">> \o n /\ content = FormRecord(n)

GenuinePng(cache_key, content) ==
    \E n \in KnownNames, first \in BOOLEAN, v \in SpriteVariants :
       /\ cache_key = <<"sprite_">> \o n
                         \o <<"_", IF first THEN "back" ELSE "front", "_", v>>
       /\ content[1] \in GenuineSprites(n, first, v)

\* the last lookup missed the cache and every request it made was answered
Answered == ~lookup[1].hit /\ lookup[1].failed = {}

Recovered ==
    CASE lookup[1].fn = "get_pokemon_data" ->
           <<lookup[1].value>> = SpeciesRecord(LastName)
      [] lookup[1].fn = "get_pokemon_form_data" ->
           lookup[1].value = FormRecord(LastName)
      [] OTHER ->
           lookup[1].sprite_url # <<>>
              => lookup[1].value \in
                    GenuineSprites(LastName, lookup[1].is_first_pokemon,
                                   lookup[1].sprite_variant)

\* C13: after any sequence of lookups with any failures, every readable cache
\* file holds what a successful fetch for its key returns (never the fallback
\* record, None or the placeholder), and a lookup that misses the cache and
\* whose requests are answered returns the provider's data, also after an
\* earlier lookup of the same thing came back with a fallback.
C13_CacheHoldsOnlyFetched ==
    pc = "cache" =>
       /\ \A k \in DOMAIN json_files :
             json_files[k].readable => GenuineJson(k, json_files[k].content)
       /\ \A k \in DOMAIN png_files :
             png_files[k].readable => GenuinePng(k, png_files[k].content)
       /\ (lookup # <<>> /\ Answered) => Recovered

\* C13's case: the second lookup asks again for a sprite whose first lookup
\* returned the placeholder; it misses the cache, is answered, returns the
\* sprite and caches it
C13_RecoveredAfterPlaceholder ==
    /\ LookedUp("get_pokemon_sprite")
    /\ ncalls = 2
    /\ Asked("get_pokemon_sprite", lookup[1].pokemon_name,
             lookup[1].sprite_variant, lookup[1].is_first_pokemon)
          \in degraded
    /\ Answered
    /\ lookup[1].value.kind = "sprite"
    /\ \E k \in DOMAIN png_files :
          png_files[k] = Readable(lookup[1].value)

CachedJson(prefix) ==
    IF prefix \o NormalizeName(lookup'[1].pokemon_name) \in DOMAIN json_files
    THEN json_files[prefix \o NormalizeName(lookup'[1].pokemon_name)]
    ELSE Unreadable

CachedPng ==
    LET k == <<"sprite_">> \o NormalizeName(lookup'[1].pokemon_name)
               \o << "_",
                      IF lookup'[1].is_first_pokemon THEN "back" ELSE "front",
                      "_", lookup'[1].sprite_variant >>
    IN  IF k \in DOMAIN png_files THEN png_files[k] ELSE Unreadable

\* one lookup, seen from the directory it started on
MemoizedStep ==
    /\ (lookup'[1].fn = "get_pokemon_data" /\ CachedJson(<<"pokemon_">>).readable)
          => /\ lookup'[1].requests = <<>>
             /\ <<lookup'[1].value>> = CachedJson(<<"pokemon_">>).content
    /\ (lookup'[1].fn = "get_pokemon_form_data"
           /\ CachedJson(<<"pokemon_form_">>).readable)
          => /\ lookup'[1].requests = <<>>
             /\ lookup'[1].value = CachedJson(<<"pokemon_form_">>).content
    /\ (lookup'[1].fn = "get_pokemon_sprite" /\ CachedPng.readable)
          => /\ lookup'[1].requests = <<>>
             /\ <<lookup'[1].value>> = CachedPng.content
    /\ (lookup'[1].fn = "get_pokemon_sprite" /\ lookup'[1].hit)
          => lookup'[1].value \in
                GenuineSprites(NormalizeName(lookup'[1].pokemon_name),
                               lookup'[1].is_first_pokemon,
                               lookup'[1].sprite_variant)

\* C14: a lookup whose cache file (named by the kind of lookup and the
\* normalized name, and for a sprite also the side and the variant) is
\* readable returns that file's content and issues no request, however many
\* lookups came before; a sprite returned from the cache is one that was
\* fetched for the same name, side and variant.
C14_CachedLookupsIssueNoRequest ==
    [][pc = "cache" => MemoizedStep]_vars

\* C14's case: the second lookup asks for a sprite the first one cached and
\* gets it back with no request, while the same name's other variant is not
\* in the cache
C14_SecondLookupServedFromCache ==
    /\ LookedUp("get_pokemon_sprite")
    /\ ncalls = 2
    /\ lookup[1].hit
    /\ lookup[1].requests = <<>>
    /\ lookup[1].value.kind = "sprite"
    /\ Cardinality(DOMAIN png_files) = 1

(***************************************************************************)
(* Properties of the saved files, checked under SpecRenders                *)
(***************************************************************************)
\* C15: two generate_battle_animation calls that save under the same TEMP_DIR,
\* one after the other or at the same time, never write to the same path.
C15_RendersNeverShareAPath ==
    \A p \in Renderers, q \in Renderers :
       (pc = "renders" /\ p # q /\ renders[p].at = "returned"
          /\ renders[q].at = "returned")
          => renders[p].returned # renders[q].returned

(***************************************************************************)
(* Properties of ensure_complete_pokemon_data, checked under SpecComplete  *)
(***************************************************************************)
SixStats ==
    {"hp", "attack", "defense", "special_attack", "special_defense", "speed"}

\* base_stats is absent, an empty dict, or whole; types is absent, an empty
\* list, or given
ShapeOfClaim ==
    /\ DictTruthy(given, "name")
    /\ "base_stats" \in DOMAIN given
          => (given["base_stats"] = <<>> \/ DOMAIN given["base_stats"] = SixStats)

\* C16: for every record with a name, whether base_stats and types are absent,
\* empty or given and whether the species lookup answers or not, the returned
\* record has all six stats in base_stats and a non-empty types list.
C16_ReturnedRecordIsComplete ==
    (pc = "complete_returned" /\ ShapeOfClaim)
       => /\ SixStats \subseteq DOMAIN completed[1]["base_stats"]
          /\ completed[1]["types"] # <<>>

(***************************************************************************)
(* The reasoning of analyze_pokemon_battle, checked under SpecBattle       *)
(***************************************************************************)
\* the side a comparison favours: 1, 2, or 0 when it favours neither
FavouredByType ==
    CASE FGt(calculate_type_effectiveness(pokemon1.types, pokemon2.types),
             calculate_type_effectiveness(pokemon2.types, pokemon1.types)) -> 1
      [] FGt(calculate_type_effectiveness(pokemon2.types, pokemon1.types),
             calculate_type_effectiveness(pokemon1.types, pokemon2.types)) -> 2
      [] OTHER -> 0

FavouredBySpeed ==
    CASE pokemon1.base_stats.speed > pokemon2.base_stats.speed -> 1
      [] pokemon2.base_stats.speed > pokemon1.base_stats.speed -> 2
      [] OTHER -> 0

FavouredByAttack ==
    CASE FGt(AttackPower(pokemon1, pokemon2), AttackPower(pokemon2, pokemon1)) -> 1
      [] FGt(AttackPower(pokemon2, pokemon1), AttackPower(pokemon1, pokemon2)) -> 2
      [] OTHER -> 0

SideName(side) ==
    Capitalize(IF side = 1 THEN pokemon1.name ELSE pokemon2.name)

TypeSentence ==
    IF FavouredByType = 0
    THEN <<"Neither Pokemon has a significant type advantage">>
    ELSE SideName(FavouredByType) \o <<" has a type advantage over ">>
            \o SideName(3 - FavouredByType)

SpeedSentence ==
    IF FavouredBySpeed = 0 THEN <<>>
    ELSE <<". ">> \o SideName(FavouredBySpeed)
            \o <<" is faster and would attack first">>

AttackSentence ==
    IF FavouredByAttack = 0 THEN <<>>
    ELSE <<". ">> \o SideName(FavouredByAttack)
            \o <<" has stronger attacking moves">>

\* the side whose name is returned as the winner, 0 when both bear it
WinningSide ==
    IF pokemon1.name = pokemon2.name THEN 0
    ELSE IF verdict[1].winner = pokemon1.name THEN 1 ELSE 2

\* C17: the reasoning is made of the type, speed and attack comparisons alone,
\* whoever is returned as the winner: it names the side with the higher type
\* effectiveness, the faster side and the side with the higher attack power,
\* so that it can speak for one Pokemon while the other is the winner.
C17_ReasoningIgnoresWinner ==
    BattleReturned =>
       verdict[1].reasoning =
          TypeSentence \o SpeedSentence \o AttackSentence \o <<".">>

\* C17's case: the reasoning gives the first Pokemon the type advantage, the
\* higher speed and the stronger attacking moves, and the second Pokemon is
\* returned as the winner
C17_ReasoningFavoursLoser ==
    /\ BattleReturned
    /\ FavouredByType = 1
    /\ FavouredBySpeed = 1
    /\ FavouredByAttack = 1
    /\ WinningSide = 2
    /\ verdict[1].reasoning =
          SideName(1) \o <<" has a type advantage over ">> \o SideName(2)
             \o <<". ">> \o SideName(1)
             \o <<" is faster and would attack first">>
             \o <<". ">> \o SideName(1)
             \o <<" has stronger attacking moves">> \o <<".">>

(***************************************************************************)
(* Properties of the species lookup, checked under SpecFetch               *)
(***************************************************************************)
FetchEnded == pc \in {"fetch_returned", "raised"}

\* requests.get gave a response, and its status is the given one or not
Answered200 ==
    api_response[1].raised = <<>> /\ api_response[1].value[1].status_code = 200

AnsweredOther ==
    api_response[1].raised = <<>> /\ api_response[1].value[1].status_code # 200

\* the body of a 200 response has a name, six stats and types
WellFormed ==
    /\ Answered200
    /\ {"name", "stats", "types"} \subseteq DOMAIN api_response[1].value[1].json[1]
    /\ Len(api_response[1].value[1].json[1].stats) >= 6

OnlyError(result) == DOMAIN result = {"error"}

\* C18: fetch_pokemon_data returns, for every response whose status is not
\* 200, a record whose only entry is 'error', with the message that the name
\* it was given was not found; fetch_pokemon_info never raises: it returns the
\* parsed record (name, six base stats, types) when the lookup succeeds and a
\* record whose only entry is 'error' on every failure, a raised exception
\* included.
C18_FailedLookupGivesErrorRecord ==
    FetchEnded =>
       /\ (fetch_call.fn = "fetch_pokemon_data" /\ AnsweredOther)
             => /\ pc = "fetch_returned"
                /\ OnlyError(fetch_result[1])
                /\ fetch_result[1].error =
                      <<"Pokemon '">> \o fetch_call.pokemon_name
                         \o <<"' not found.">>
       /\ fetch_call.fn = "fetch_pokemon_info"
             => /\ pc = "fetch_returned"
                /\ IF WellFormed
                   THEN /\ DOMAIN fetch_result[1] = {"name", "base_stats", "types"}
                        /\ fetch_result[1].name
                              = Strip(Lower(fetch_call.pokemon_name))
                        /\ DOMAIN fetch_result[1].base_stats = SixStats
                        /\ fetch_result[1].base_stats.hp
                              = api_response[1].value[1].json[1].stats[1].base_stat
                        /\ fetch_result[1].base_stats.speed
                              = api_response[1].value[1].json[1].stats[6].base_stat
                        /\ Len(fetch_result[1].types)
                              = Len(api_response[1].value[1].json[1].types)
                        /\ \A k \in 1..Len(fetch_result[1].types) :
                              fetch_result[1].types[k] =
                                api_response[1].value[1].json[1].types[k].type.name
                   ELSE OnlyError(fetch_result[1])

\* C18's case: fetch_pokemon_info was called while requests.get raised a
\* connection error, and returned a record with the error alone
C18_RaisedLookupReturnsError ==
    /\ pc = "fetch_returned"
    /\ fetch_call.fn = "fetch_pokemon_info"
    /\ api_condition = "connection error"
    /\ api_response[1].raised # <<>>
    /\ OnlyError(fetch_result[1])
    /\ fetch_result[1].error = api_response[1].raised[1].message

(***************************************************************************)
(* Properties of GET /battle, checked under SpecEndpoint                   *)
(***************************************************************************)
ProcessQuestionRaised == process_question_outcome.raised # <<>>

\* process_question returned a dictionary whose winner and reasoning are
\* texts that are not empty
GaveWinnerAndReasoning ==
    /\ process_question_outcome.raised = <<>>
    /\ process_question_outcome.value[1].type = "dict"
    /\ {"winner", "reasoning"}
          \subseteq DOMAIN process_question_outcome.value[1].value
    /\ \A k \in {"winner", "reasoning"} :
          /\ process_question_outcome.value[1].value[k].type = "str"
          /\ process_question_outcome.value[1].value[k].value # <<>>

GivenText(k) == process_question_outcome.value[1].value[k].value

\* C19: GET /battle always answers; when process_question raises, the answer
\* is HTTP 500 with a detail that starts with 'Error processing battle'; when
\* process_question returns a winner and a reasoning, the answer is HTTP 200
\* with the winner capitalized (first letter upper case, the rest lower case)
\* and the reasoning as it was returned.
C19_BattleAnswersEveryOutcome ==
    pc = "battle_answered" =>
       /\ http_response # <<>>
       /\ http_response[1].status_code \in {200, 500}
       /\ http_response[1].status_code = 500
             => http_response[1].body.detail[1] = "Error processing battle: "
       /\ ProcessQuestionRaised
             => /\ http_response[1].status_code = 500
                /\ http_response[1].body.detail =
                      <<"Error processing battle: ">>
                         \o process_question_outcome.raised[1].message
       /\ GaveWinnerAndReasoning
             => /\ http_response[1].status_code = 200
                /\ http_response[1].body.winner[1]
                      = UpperChar(GivenText("winner")[1])
                /\ Lower(http_response[1].body.winner)
                      = Lower(GivenText("winner"))
                /\ Tail(http_response[1].body.winner)
                      = Lower(Tail(GivenText("winner")))
                /\ http_response[1].body.reasoning = GivenText("reasoning")

\* C19's case: process_question raised Exception("Test error") and the
\* endpoint answered 500 with that error in the detail
C19_RaisedQuestionAnswered500 ==
    /\ pc = "battle_answered"
    /\ ProcessQuestionRaised
    /\ process_question_outcome.raised[1].type = "Exception"
    /\ http_response[1].status_code = 500
    /\ http_response[1].body.detail = <<"Error processing battle: ", "Test error">>

(***************************************************************************)
(* Properties of check_json, checked under SpecSupervisor                  *)
(***************************************************************************)
\* C20: check_json returns a dictionary for every text: it raises no
\* exception, and what it returns is a dictionary, never the text it was
\* given.
C20_CheckJsonReturnsADictionary ==
    pc \in {"check_json_returned", "raised"} =>
       /\ pc = "check_json_returned"
       /\ check_json_result[1].type = "dict"

(***************************************************************************)
(* Properties of analyze_pokemon_battle at the edges, checked under        *)
(* SpecEdge                                                                *)
(***************************************************************************)
BattleEnded == pc \in {"battle_returned", "battle_raised"}

RecordsWritten(cache_key) ==
    { callers[p].data[1] :
        p \in { q \in Callers : /\ callers[q].data # <<>>
                                 /\ callers[q].at \in {"writing", "returned"}
                                 /\ CacheKey(callers[q].pokemon_name) = cache_key } }

AllReturned == \A p \in Callers : callers[p].at = "returned"

\* C22: whatever the interleaving of concurrent get_pokemon_data calls, a call
\* whose fetch succeeded returns the provider's record for its name, a call
\* answered from the cache returns that record too (a partly written entry
\* counts as a miss), and once every call has returned each cache entry is,
\* complete, one of the records written under its key.
C22_RacingCallsReturnProviderRecords ==
    pc = "race" =>
       /\ \A p \in Callers :
             callers[p].at = "returned" =>
                \/ callers[p].returned = SpeciesRecord(callers[p].pokemon_name)
                \/ /\ callers[p].data = <<>>
                   /\ callers[p].missed
                   /\ callers[p].returned
                         = <<FallbackRecord(callers[p].pokemon_name)>>
       /\ AllReturned =>
             \A cache_key \in DOMAIN cache_files :
                /\ json_load(cache_files[cache_key]) # <<>>
                /\ json_load(cache_files[cache_key])[1]
                      \in RecordsWritten(cache_key)

\* C22's case: two calls for the same name both missed, both fetched and both
\* wrote the entry, and both have returned the provider's record
C22_BothMissedBothWrote ==
    /\ pc = "race"
    /\ AllReturned
    /\ callers[1].pokemon_name = callers[2].pokemon_name
    /\ \A p \in Callers :
          /\ callers[p].missed
          /\ callers[p].written = ChunksPerDump
          /\ callers[p].returned = SpeciesRecord(callers[p].pokemon_name)

(***************************************************************************)
(* Properties of GET /battle/visualize, checked under SpecVisualize        *)
(***************************************************************************)
\* the agent's answer held no visualization_path and both names are given
FallbackTaken ==
    /\ LacksPath(process_question_outcome)
    /\ battle_request.pokemon1 # <<>>
    /\ battle_request.pokemon2 # <<>>

BarEnded == bar_call # <<>> /\ health_bar # <<>>

\* the colour the bar is to have at a health
ColorAt(health) ==
    IF FGt(health, F0_5) THEN Green
    ELSE IF FGt(health, F0_2) /\ FLe(health, F0_5) THEN Yellow
    ELSE Red

\* C24: create_health_bar fills in green when health > 0.5, in yellow when
\* 0.2 < health <= 0.5 and in red otherwise, draws no fill when health is 0,
\* and for every health > 0 and every bar width fills at least one pixel
\* column.
C24_BarFilledAtEveryPositiveHealth ==
    BarEnded =>
      /\ health_bar.raised = <<>>
      /\ IF FGt(bar_call.health_percentage, FZero)
         THEN /\ health_bar.value[1].fill # <<>>
              /\ health_bar.value[1].fill[1].color
                   = ColorAt(bar_call.health_percentage)
              /\ health_bar.value[1].fill[1].columns # {}
              /\ health_bar.value[1].fill[1].rows # {}
         ELSE health_bar.value[1].fill = <<>>

(***************************************************************************)
(* Properties of the background keying, checked under SpecKeying           *)
(***************************************************************************)
SpriteKeyed == pc = "sprite_keyed"

\* the pixel at column x, row y (from 0)
PixelAt(image, x, y) == image.data[y * image.size[1] + x + 1]

\* the samples of the border, a corner once for its row and once for its
\* column, that have all three channels below 10
BlackSamples(image) ==
    { <<edge, at>> \in ({"top", "bottom"} \X (0 .. image.size[1] - 1))
                        \cup ({"left", "right"} \X (0 .. image.size[2] - 1)) :
        VeryBlack(CASE edge = "top" -> PixelAt(image, at, 0)
                    [] edge = "bottom" -> PixelAt(image, at, image.size[2] - 1)
                    [] edge = "left" -> PixelAt(image, 0, at)
                    [] edge = "right" -> PixelAt(image, image.size[1] - 1, at)) }

SampleCount(image) == 2 * image.size[1] + 2 * image.size[2]

Opaque(image) == \A k \in 1 .. Len(image.data) : image.data[k][4] = 255

\* what the keying does to the pixels, whenever it runs or not
KeyedAsStated ==
    \A k \in 1 .. Len(fetched_sprite.data) :
        keyed_sprite.data[k] =
            IF keyed_sprite.putdata /\ VeryBlack(fetched_sprite.data[k])
            THEN <<0, 0, 0, 0>>
            ELSE fetched_sprite.data[k]

\* C25 as stated: the keying runs exactly when the image has no pixel with
\* alpha below 255 and at least 70% of the border samples have all three
\* channels below 10; when it runs exactly those pixels become fully
\* transparent, and when it does not no pixel changes.
C25_KeyedAtSeventyPercent ==
    SpriteKeyed =>
      /\ keyed_sprite.putdata
           <=> /\ Opaque(fetched_sprite)
               /\ 10 * Cardinality(BlackSamples(fetched_sprite))
                    >= 7 * SampleCount(fetched_sprite)
      /\ KeyedAsStated

\* C25, amended: the keying runs exactly when the image has no pixel with
\* alpha below 255 and the number of border samples with all three channels
\* below 10 is greater than the binary64 product of the sample count and 0.7:
\* more than 70% of the samples, and exactly 70% only where that product
\* rounds below seven tenths of the count.  When it runs exactly the pixels
\* with all three channels below 10 become fully transparent, and when it
\* does not no pixel changes.
C25_KeyedAboveSeventyPercent ==
    SpriteKeyed =>
      /\ keyed_sprite.putdata
           <=> /\ Opaque(fetched_sprite)
               /\ FGt(FInt(Cardinality(BlackSamples(fetched_sprite))),
                      FMul(FInt(SampleCount(fetched_sprite)), FLit(7, 10)))
      /\ KeyedAsStated

\* ten samples of which exactly seven are black: the keying did not run
C25_SevenOfTenNotKeyed ==
    /\ SpriteKeyed
    /\ Opaque(fetched_sprite)
    /\ SampleCount(fetched_sprite) = 10
    /\ Cardinality(BlackSamples(fetched_sprite)) = 7
    /\ ~keyed_sprite.putdata

(***************************************************************************)
(* Properties of the two type tables on all 18 types, checked under        *)
(* SpecTypes                                                               *)
(***************************************************************************)
\* the multipliers the docstring of calculate_type_effectiveness lists
DocumentedMultipliers == {FZero, F0_5, F1, F2, FInt(4)}

\* C26: for attacker and defender lists of one or two of the 18 types,
\* calculate_type_effectiveness returns only 0, 0.5, 1, 2 or 4.
C26_OnlyDocumentedMultipliers ==
    effectiveness # <<>> => effectiveness[1] \in DocumentedMultipliers

ChartReturned == pc = "chart_returned"

\* the defender is listed under the attacker in a table of the evaluator
ListedIn(table, attacker, defender) ==
    attacker \in DOMAIN table /\ InList(defender, table[attacker])

\* the chart's multiplier for the attacker's types against the defender's
ChartProduct == chart_effectiveness[1].p1_against_p2

\* C27: for every ordered pair of the 18 types the chart of
\* get_type_effectiveness gives 2 exactly when the defender is in
\* TYPE_ADVANTAGES[attacker] and 0 exactly when it is in
\* TYPE_IMMUNITIES[attacker]; and for lists of one or two types the
\* evaluator's effectiveness is 0.0 exactly when the chart's product for the
\* same direction is 0.
C27_TablesAgree ==
    ChartReturned =>
      /\ (Len(attacker_types) = 1 /\ Len(defender_types) = 1) =>
            /\ ChartProduct = F2
                 <=> ListedIn(TYPE_ADVANTAGES, attacker_types[1], defender_types[1])
            /\ ChartProduct = FZero
                 <=> ListedIn(TYPE_IMMUNITIES, attacker_types[1], defender_types[1])
      /\ effectiveness[1] = FZero <=> ChartProduct = FZero

\* fire and ground against flying and grass: the evaluator returns 0.0 at
\* ground against flying, after doubling for fire against grass, and the
\* chart's product 2 * 0 * 0.5 is 0
C27_ImmuneSecondTypeBothZero ==
    /\ ChartReturned
    /\ attacker_types = <<"fire", "ground">>
    /\ defender_types = <<"flying", "grass">>
    /\ effectiveness[1] = FZero
    /\ ChartProduct = FZero

(***************************************************************************)
(* An attacker the defender is immune to, checked under SpecEdge           *)
(***************************************************************************)
\* what is claimed of a side whose effectiveness is 0.0: its attack power, the
\* divisor and value of its turns to win, and when it wins all the same
ImmuneSideAsStated(own, opponent, attack_power, divisor, turns_to_win, opponent_attack_power) ==
    /\ FIsZero(attack_power)
    /\ divisor = F1
    /\ turns_to_win = EffectiveBulk(opponent.base_stats)
    /\ FLt(EffectiveBulk(opponent.base_stats),
           FDiv(EffectiveBulk(own.base_stats), FMax(opponent_attack_power, F1)))
         => verdict[1].winner = own.name

\* C28: where a side's effectiveness against the other is 0.0, its attack
\* power is 0 and its turns to win, divided by the floor 1, equal the other's
\* effective bulk whatever its attack and special_attack; and it is still
\* returned as the winner whenever the other's effective bulk is lower than
\* its own effective bulk divided by max(the other's attack power, 1).
C28_ImmuneSideCanStillWin ==
    BattleReturned =>
      /\ FIsZero(verdict[1].p1_type_effectiveness) =>
            ImmuneSideAsStated(pokemon1, pokemon2, verdict[1].p1_attack_power,
                               verdict[1].p1_divisor, verdict[1].p1_turns_to_win,
                               verdict[1].p2_attack_power)
      /\ FIsZero(verdict[1].p2_type_effectiveness) =>
            ImmuneSideAsStated(pokemon2, pokemon1, verdict[1].p2_attack_power,
                               verdict[1].p2_divisor, verdict[1].p2_turns_to_win,
                               verdict[1].p1_attack_power)

\* ground with attack 20 and special_attack 30 against ghost and flying with
\* hp 0: ground cannot hit, and wins
C28_ImmuneFirstSideWon ==
    /\ BattleReturned
    /\ pokemon1.types = <<"ground">>
    /\ pokemon2.types = <<"ghost", "flying">>
    /\ pokemon1.base_stats.attack = 20
    /\ pokemon1.base_stats.special_attack = 30
    /\ pokemon2.base_stats.hp = 0
    /\ FIsZero(verdict[1].p1_type_effectiveness)
    /\ FGt(EffectiveBulk(pokemon1.base_stats), FZero)
    /\ verdict[1].winner = pokemon1.name

(***************************************************************************)
(* The order of the arguments of analyze_pokemon_battle, checked under     *)
(* SpecSwap                                                                *)
(***************************************************************************)
SwappedReturned == pc = "swapped_returned"

\* turns to win, speed and hp are all equal
FullTie ==
    /\ FCmp(verdict[1].p1_turns_to_win, verdict[1].p2_turns_to_win) = 0
    /\ pokemon1.base_stats.speed = pokemon2.base_stats.speed
    /\ pokemon1.base_stats.hp = pokemon2.base_stats.hp

\* C29: for two records with different names, analyze_pokemon_battle(a, b)
\* and analyze_pokemon_battle(b, a) return the same winner unless turns to
\* win, speed and hp are all equal, and then each call returns its own second
\* argument.
C29_WinnerWhateverTheOrder ==
    (SwappedReturned /\ pokemon1.name # pokemon2.name) =>
       IF FullTie
       THEN /\ verdict[1].winner = pokemon2.name
            /\ swapped_verdict[1].winner = pokemon1.name
       ELSE verdict[1].winner = swapped_verdict[1].winner

\* a full tie between two records of different names: each call returned
\* its second argument, so the two winners differ
C29_FullTieEachReturnedItsSecond ==
    /\ SwappedReturned
    /\ pokemon1.name # pokemon2.name
    /\ FullTie
    /\ verdict[1].winner = pokemon2.name
    /\ swapped_verdict[1].winner = pokemon1.name

(***************************************************************************)
(* Termination of the message replacement, checked under SpecLoopFair      *)
(***************************************************************************)
LoopDone == pc = "loop_done"

\* the message opens with the capitalized name of a side whose health is 0
OpensWithFaintedName(message) ==
    \/ /\ FLe(loop_call.p1_health, FZero)
       /\ StartsWith(message, loop_call.p1_cap)
    \/ /\ FLe(loop_call.p2_health, FZero)
       /\ StartsWith(message, loop_call.p2_cap)

\* the loop ended at a message of the list that is not a fainted side's
StoppedAtOtherMessage ==
    /\ loop_message = loop_call.messages[loop_index + 1]
    /\ ~OpensWithFaintedName(loop_message)

\* the loop came back to the tick's own index and ended with an announcement
StoppedWithAnnouncement ==
    /\ loop_index = loop_call.start
    /\ loop_advances = Len(loop_call.messages)
    /\ \/ /\ FLe(loop_call.p1_health, FZero)
          /\ loop_message = loop_call.p1_cap \o <<" has fainted!">>
       \/ /\ FLe(loop_call.p2_health, FZero)
          /\ loop_message = loop_call.p2_cap \o <<" has fainted!">>

\* C30: the message replacement of a battle tick always terminates, after at
\* most len(messages) advances of the message index, either at a message that
\* does not open with a fainted side's capitalized name or, back at the
\* tick's own index, with a faint announcement; for every order of the
\* messages, every pair of healths and every pair of names.
C30_ReplacementLoopTerminates ==
    /\ [](/\ loop_advances <= Len(loop_call.messages)
          /\ LoopDone => (StoppedAtOtherMessage \/ StoppedWithAnnouncement))
    /\ <>LoopDone

\* both sides at 0 and one name a prefix of the other: every message was
\* passed over and the loop ended with the announcement
C30_WrappedWithPrefixNames ==
    /\ LoopDone
    /\ loop_call.p1_cap = <<"A", "b">>
    /\ loop_call.p2_cap = <<"A", "b", "c">>
    /\ loop_call.p1_health = FZero
    /\ loop_call.p2_health = FZero
    /\ Len(loop_call.messages) = MaxMessages
    /\ loop_advances = MaxMessages
    /\ loop_message = <<"A", "b", " has fainted!">>

=============================================================================
